---- MODULE Spec2Model ----
(***************************************************************************)
(* Request-resolution and decision-synchronisation core of the document    *)
(* review server: security validator, path resolver, atomic writer, slug   *)
(* allocator, decision broker, the upload and image routes, the server's   *)
(* bind loop and the session as a whole, with its other routes and stop(). *)
(*                                                                         *)
(* Strings are sequences of one-character strings (<<"/", "a">> is "/a"),  *)
(* so that startsWith, split, replace and the regular expressions of the   *)
(* source are computed character by character.  An upper-case or multi-    *)
(* letter token ("png", "PNG", "exe") stands for that run of ordinary      *)
(* letters.                                                                *)
(***************************************************************************)
EXTENDS Integers, Sequences, FiniteSets, TLC

VARIABLES
    \* security.ts validatePath, applied to one input
    vpReq, vpBases, vpOut,
    \* security.ts sanitizeFilename, applied to one input and to its own result
    sanIn, sanOut, sanOut2,
    \* storage.ts: the plan directory (the slugs S whose S.md exists) and one
    \* call of generateUniqueSlug
    planDir, slugCall,
    \* storage.ts: the sessions that save a plan into the plan directory
    sessions,
    \* atomic.ts: the files of the target directory (path -> chunks written),
    \* the content the target had before any call, the calls of atomicWrite
    \* and what a reader of the target last saw
    disk, prior, writers, lastRead,
    \* the document server: the files on disk, the session's baseDir and
    \* projectRoot, the response to one GET /api/doc and the file it read
    files, baseDir, projectRoot, docOut, docRead,
    \* the decision broker: the settled value of decisionPromise, the payloads
    \* resolveDecision was called with (in order), the value waitForDecision
    \* delivered, and the POST /api/approve and /api/feedback requests
    decision, resolveCalls, delivered, reqs,
    \* POST /api/upload: the request, the files of /tmp/plannotator and the
    \* mode the directory was created with
    upload, tmpFiles, tmpDirMode,
    \* GET /api/image: the response to one request
    imgOut,
    \* startDocServer's bind loop: the attempt counter, the position in the
    \* loop, the clock and what each Bun.serve call did
    bind,
    \* startDocServer's options markdown and filepath, and whether the server
    \* it returned is running
    session,
    \* atomic.ts: one call of atomicWriteMultiple (on the directory disk)
    multi

varsValidate == <<vpReq, vpBases, vpOut>>
varsSanitize == <<sanIn, sanOut, sanOut2>>
varsSlug == <<planDir, slugCall, sessions>>
varsWrite == <<disk, prior, writers, lastRead>>
varsDoc == <<files, baseDir, projectRoot, docOut, docRead>>
varsBroker == <<decision, resolveCalls, delivered, reqs>>
varsUpload == <<upload, tmpFiles, tmpDirMode>>
varsImage == <<imgOut>>
varsBind == <<bind, session>>
varsMulti == <<multi>>
vars == <<varsValidate, varsSanitize, varsSlug, varsWrite, varsDoc, varsBroker,
          varsUpload, varsImage, varsBind, varsMulti>>

\* an optional value: None, or Some(v)
None == <<>>
Some(v) == <<v>>

(***************************************************************************)
(* Bounds of the model.                                                    *)
(***************************************************************************)
MaxPathLen == 5
MaxNameLen == 5
\* how many of the names base, base-2, base-3, ... a short directory holds
MaxTaken == 3
\* concurrent calls of atomicWrite, and the chunks Bun.write writes a content in
NWriters == 2
NChunks == 2
\* segments of a requested document path
MaxSegs == 3
\* approve and feedback requests of one session
NReqs == 3
\* characters (or letter runs) of an uploaded file's name
MaxUploadName == 3
\* the entries of a batch of atomicWriteMultiple
MaxBatch == 3
\* sessions that save a plan into one directory
NSessions == 2
\* approve and feedback requests of a session that also serves other routes
NSessionReqs == 2

(***************************************************************************)
(* Strings.                                                                *)
(***************************************************************************)
RECURSIVE StringsUpTo(_, _)
StringsUpTo(alphabet, n) ==
    IF n = 0 THEN {<<>>}
    ELSE LET shorter == StringsUpTo(alphabet, n - 1)
         IN  shorter \cup {Append(s, c) : s \in shorter, c \in alphabet}

\* String.prototype.startsWith
StartsWith(s, p) == Len(p) <= Len(s) /\ SubSeq(s, 1, Len(p)) = p

\* String.prototype.includes, for a one-character needle
Includes(s, c) == \E i \in 1..Len(s) : s[i] = c

\* String.prototype.split, for a one-character separator
RECURSIVE Split(_, _)
Split(s, sep) ==
    IF ~Includes(s, sep) THEN <<s>>
    ELSE LET i == CHOOSE k \in 1..Len(s) :
                      s[k] = sep /\ \A j \in 1..(k - 1) : s[j] # sep
         IN  <<SubSeq(s, 1, i - 1)>> \o Split(SubSeq(s, i + 1, Len(s)), sep)

\* Array.prototype.pop of a non-empty array
Last(q) == q[Len(q)]

(***************************************************************************)
(* node:path (POSIX).                                                      *)
(***************************************************************************)
\* normalizeString: drops empty and "." segments, ".." removes the segment
\* before it and is dropped at the root of an absolute path
RECURSIVE NormSegs(_, _)
NormSegs(segs, acc) ==
    IF segs = <<>> THEN acc
    ELSE LET h == Head(segs)
             acc2 == IF h = <<>> \/ h = <<".">> THEN acc
                     ELSE IF h = <<".", ".">>
                          THEN (IF acc = <<>> THEN acc
                                ELSE SubSeq(acc, 1, Len(acc) - 1))
                          ELSE Append(acc, h)
         IN  NormSegs(Tail(segs), acc2)

\* the absolute path string of a list of segments; the root is "/"
RECURSIVE JoinSegs(_)
JoinSegs(segs) ==
    IF segs = <<>> THEN <<>>
    ELSE <<"/">> \o Head(segs) \o JoinSegs(Tail(segs))

AbsString(segs) == IF segs = <<>> THEN <<"/">> ELSE JoinSegs(segs)

IsAbsolute(p) == Len(p) > 0 /\ p[1] = "/"

\* the segments of the normalized absolute path of p
SegsOf(p) == NormSegs(Split(p, "/"), <<>>)

\* the segments of path.resolve(from, to), from absolute
ResolveSegs(from, to) ==
    IF IsAbsolute(to) THEN SegsOf(to)
    ELSE NormSegs(Split(from, "/") \o Split(to, "/"), <<>>)

\* path.resolve(from, to), from absolute
Resolve2(from, to) == AbsString(ResolveSegs(from, to))

\* process.cwd() of the server process
Cwd == <<"/", "a">>

\* path.resolve(p)
Resolve1(p) == Resolve2(Cwd, p)

\* path-segment containment: base is path, or a segment prefix of it
UnderBase(pathSegs, baseSegs) ==
    /\ Len(baseSegs) <= Len(pathSegs)
    /\ SubSeq(pathSegs, 1, Len(baseSegs)) = baseSegs

(***************************************************************************)
(* security.ts                                                             *)
(***************************************************************************)
ErrPathNotAllowed == "Path not allowed"

validatePath(requestedPath, allowedBases) ==
    LET resolved == Resolve1(requestedPath)
        isAllowed == \E i \in DOMAIN allowedBases :
                        LET resolvedBase == Resolve1(allowedBases[i])
                        IN  \/ resolved = resolvedBase
                            \/ StartsWith(resolved, resolvedBase \o <<"/">>)
    IN  IF isAllowed
        THEN [ok |-> TRUE, path |-> resolved, error |-> ""]
        ELSE [ok |-> FALSE, path |-> <<>>, error |-> ErrPathNotAllowed]

\* String.prototype.replace(/[...]/g, "")
RemoveChars(s, bad) == SelectSeq(s, LAMBDA c : c \notin bad)

\* String.prototype.replace(/\.\./g, ""): non-overlapping, left to right
RECURSIVE RemoveDotDot(_)
RemoveDotDot(s) ==
    IF Len(s) < 2 THEN s
    ELSE IF s[1] = "." /\ s[2] = "." THEN RemoveDotDot(SubSeq(s, 3, Len(s)))
         ELSE <<s[1]>> \o RemoveDotDot(Tail(s))

RECURSIVE TrimLeft(_, _)
TrimLeft(s, set) ==
    IF s # <<>> /\ Head(s) \in set THEN TrimLeft(Tail(s), set) ELSE s

RECURSIVE TrimRight(_, _)
TrimRight(s, set) ==
    IF s # <<>> /\ Last(s) \in set
    THEN TrimRight(SubSeq(s, 1, Len(s) - 1), set) ELSE s

\* the characters of /[\/\\]/
PathSeparators == {"/", "\\"}
\* the characters of /[\x00-\x1f\x7f<>:"|?*]/ ("^" stands for a control character)
DangerousChars == {"^", "<", ">", ":", "\"", "|", "?", "*"}
\* the characters of /[\s.]/ left after the control characters are removed
TrimChars == {" ", "."}

DefaultName == <<"f", "i", "l", "e">>

sanitizeFilename(filename) ==
    LET noSeps == RemoveDotDot(RemoveChars(filename, PathSeparators))
        noDanger == RemoveChars(noSeps, DangerousChars)
        trimmed == TrimRight(TrimLeft(noDanger, TrimChars), TrimChars)
    IN  IF trimmed = <<>> THEN DefaultName ELSE trimmed

(***************************************************************************)
(* validatePath applied to one request.                                    *)
(***************************************************************************)
PathAlphabet == {"/", ".", "a", "b"}
PathStrings == StringsUpTo(PathAlphabet, MaxPathLen)

\* lists of allowed bases: a nested base, the root, a relative base, two bases
BaseLists ==
    { <<<<"/", "a", "/", "b">>>>,
      <<<<"/">>>>,
      <<<<"/", "a">>>>,
      <<<<"b">>>>,
      <<<<"/", "b", "/">>, <<"/", "a", "/", "b">>>> }

InitValidate ==
    /\ session = None
    /\ sessions = <<>>
    /\ vpReq \in PathStrings
    /\ vpBases \in BaseLists
    /\ vpOut = None
    /\ sanIn = <<>> /\ sanOut = None /\ sanOut2 = None
    /\ planDir = {} /\ slugCall = None
    /\ disk = <<>> /\ prior = None /\ writers = <<>> /\ lastRead = None
    /\ files = {} /\ baseDir = <<>> /\ projectRoot = <<>>
    /\ docOut = None /\ docRead = None
    /\ decision = None /\ resolveCalls = <<>> /\ delivered = None /\ reqs = <<>>
    /\ upload = None /\ tmpFiles = <<>> /\ tmpDirMode = None
    /\ imgOut = None /\ bind = None /\ multi = None

CallValidatePath ==
    /\ vpOut = None
    /\ vpOut' = Some(validatePath(vpReq, vpBases))
    /\ UNCHANGED <<vpReq, vpBases>>
    /\ UNCHANGED <<varsSanitize, varsSlug, varsWrite, varsDoc, varsBroker, varsUpload,
                 varsImage, varsBind, varsMulti>>

NextValidate == CallValidatePath

\* C3: validatePath returns the resolved absolute path iff that path equals
\* some resolved base or has it as a path-segment prefix (a sibling sharing
\* only a string prefix is rejected, every path under a base, the root
\* included, is accepted), and fails otherwise.
ValidatePathIffContained ==
    vpOut # None =>
        LET contained == \E i \in DOMAIN vpBases :
                UnderBase(ResolveSegs(Cwd, vpReq), ResolveSegs(Cwd, vpBases[i]))
        IN  /\ vpOut[1].ok <=> contained
            /\ vpOut[1].ok => vpOut[1].path = Resolve1(vpReq)

(***************************************************************************)
(* sanitizeFilename applied to one name, then to its own result.           *)
(***************************************************************************)
NameAlphabet == {"a", ".", ":", "/", " "}
NameStrings == StringsUpTo(NameAlphabet, MaxNameLen)

InitSanitize ==
    /\ session = None
    /\ sessions = <<>>
    /\ sanIn \in NameStrings
    /\ sanOut = None
    /\ sanOut2 = None
    /\ vpReq = <<>> /\ vpBases = <<>> /\ vpOut = None
    /\ planDir = {} /\ slugCall = None
    /\ disk = <<>> /\ prior = None /\ writers = <<>> /\ lastRead = None
    /\ files = {} /\ baseDir = <<>> /\ projectRoot = <<>>
    /\ docOut = None /\ docRead = None
    /\ decision = None /\ resolveCalls = <<>> /\ delivered = None /\ reqs = <<>>
    /\ upload = None /\ tmpFiles = <<>> /\ tmpDirMode = None
    /\ imgOut = None /\ bind = None /\ multi = None

CallSanitize ==
    /\ sanOut = None
    /\ sanOut' = Some(sanitizeFilename(sanIn))
    /\ UNCHANGED <<sanIn, sanOut2>>
    /\ UNCHANGED <<varsValidate, varsSlug, varsWrite, varsDoc, varsBroker, varsUpload,
                 varsImage, varsBind, varsMulti>>

CallSanitizeAgain ==
    /\ sanOut # None
    /\ sanOut2 = None
    /\ sanOut2' = Some(sanitizeFilename(sanOut[1]))
    /\ UNCHANGED <<sanIn, sanOut>>
    /\ UNCHANGED <<varsValidate, varsSlug, varsWrite, varsDoc, varsBroker, varsUpload,
                 varsImage, varsBind, varsMulti>>

NextSanitize == CallSanitize \/ CallSanitizeAgain

HasDotDot(s) == \E i \in 1..(Len(s) - 1) : s[i] = "." /\ s[i + 1] = "."

\* C8: sanitizeFilename is idempotent, and its result never contains "/",
\* "\" or the sequence "..".
SanitizeIdempotentAndClean ==
    /\ sanOut # None =>
          /\ ~Includes(sanOut[1], "/")
          /\ ~Includes(sanOut[1], "\\")
          /\ ~HasDotDot(sanOut[1])
    /\ sanOut2 # None => sanOut2 = sanOut

(***************************************************************************)
(* storage.ts: slugs.  A slug is the sequence of its "-"-joined parts:     *)
(* <<date, tag>>, then a counter or a millisecond timestamp.               *)
(***************************************************************************)
\* new Date().toISOString().split("T")[0]
Today == "2026-11-02"

\* the plans of the model: no heading, a heading whose tag is empty, two
\* headings with a tag
Plans == {"no-heading", "# !!!", "# Plan A", "# Plan B"}

\* extractFirstHeading: the text of the first "# " line, None without one
extractFirstHeading(markdown) ==
    IF markdown = "no-heading" THEN None
    ELSE Some(CASE markdown = "# !!!" -> "!!!"
                [] markdown = "# Plan A" -> "Plan A"
                [] OTHER -> "Plan B")

\* project.ts sanitizeTag: a filesystem-safe tag, empty when nothing is left
sanitizeTag(heading) ==
    CASE heading = "Plan A" -> "plan-a"
      [] heading = "Plan B" -> "plan-b"
      [] OTHER -> ""

generateSlug(plan) ==
    LET heading == extractFirstHeading(plan)
        slug == IF heading # None THEN sanitizeTag(heading[1]) ELSE ""
    IN  IF slug # "" THEN <<Today, slug>> ELSE <<Today, "plan">>

\* the loop runs while counter < CounterLimit
CounterLimit == 1000

\* Date.now() at the fallback: one of two consecutive milliseconds
NowBase == 1000000
NowValues == {NowBase, NowBase + 1}

\* the first n of the names base, base-2, base-3, ...
Taken(base, n) ==
    (IF n >= 1 THEN {base} ELSE {}) \cup {Append(base, k) : k \in 2..n}

\* the directories of the model: for some plan, the first n names taken
\* (none, a few, all but the last counter, all), possibly with the second
\* name free, possibly with files named by a timestamp
PlanDirsOf(base) ==
    { (Taken(base, n) \ hole) \cup {Append(base, t) : t \in ts} :
        n \in (0..MaxTaken) \cup {CounterLimit - 2, CounterLimit - 1},
        hole \in {{}, {Append(base, 2)}},
        ts \in SUBSET NowValues }

PlanDirs == UNION {PlanDirsOf(generateSlug(p)) : p \in Plans}

InitSlug ==
    /\ session = None
    /\ sessions = <<>>
    /\ planDir \in PlanDirs
    /\ slugCall = None
    /\ vpReq = <<>> /\ vpBases = <<>> /\ vpOut = None
    /\ sanIn = <<>> /\ sanOut = None /\ sanOut2 = None
    /\ disk = <<>> /\ prior = None /\ writers = <<>> /\ lastRead = None
    /\ files = {} /\ baseDir = <<>> /\ projectRoot = <<>>
    /\ docOut = None /\ docRead = None
    /\ decision = None /\ resolveCalls = <<>> /\ delivered = None /\ reqs = <<>>
    /\ upload = None /\ tmpFiles = <<>> /\ tmpDirMode = None
    /\ imgOut = None /\ bind = None /\ multi = None

\* existsSync(join(planDir, `${slug}.md`))
SlugExists(slug) == slug \in planDir

\* a loop that does not advance
SameCounter(counter) == counter

\* the next value of the loop counter
NextCounter(counter) == counter + 1

\* generateUniqueSlug, lines 62-69: the base slug is probed
SlugBegin ==
    /\ slugCall = None
    /\ \E plan \in Plans :
         LET baseSlug == generateSlug(plan)
         IN  slugCall' = Some(
               IF ~SlugExists(baseSlug)
               THEN [pc |-> "returned", baseSlug |-> baseSlug, counter |-> 0,
                     probes |-> 1, result |-> baseSlug, fallback |-> FALSE]
               ELSE [pc |-> "loop", baseSlug |-> baseSlug, counter |-> 2,
                     probes |-> 1, result |-> <<>>, fallback |-> FALSE])
    /\ UNCHANGED <<planDir, sessions>>
    /\ UNCHANGED <<varsValidate, varsSanitize, varsWrite, varsDoc, varsBroker, varsUpload,
                 varsImage, varsBind, varsMulti>>

\* lines 73-80: one iteration of the loop
SlugProbe ==
    /\ slugCall # None
    /\ slugCall[1].pc = "loop"
    /\ slugCall[1].counter < CounterLimit
    /\ LET c == slugCall[1]
           slug == Append(c.baseSlug, c.counter)
       IN  slugCall' = Some(
             IF ~SlugExists(slug)
             THEN [c EXCEPT !.pc = "returned", !.probes = @ + 1, !.result = slug]
             ELSE [c EXCEPT !.probes = @ + 1, !.counter = NextCounter(@)])
    /\ UNCHANGED <<planDir, sessions>>
    /\ UNCHANGED <<varsValidate, varsSanitize, varsWrite, varsDoc, varsBroker, varsUpload,
                 varsImage, varsBind, varsMulti>>

\* line 83: the timestamp fallback, taken without a probe
SlugFallback ==
    /\ slugCall # None
    /\ slugCall[1].pc = "loop"
    /\ ~(slugCall[1].counter < CounterLimit)
    /\ \E now \in NowValues :
         slugCall' = Some([slugCall[1] EXCEPT !.pc = "returned",
                              !.result = Append(slugCall[1].baseSlug, now),
                              !.fallback = TRUE])
    /\ UNCHANGED <<planDir, sessions>>
    /\ UNCHANGED <<varsValidate, varsSanitize, varsWrite, varsDoc, varsBroker, varsUpload,
                 varsImage, varsBind, varsMulti>>

NextSlug == SlugBegin \/ SlugProbe \/ SlugFallback

SlugReturned == slugCall # None /\ slugCall[1].pc = "returned"

\* C6: the slug generateUniqueSlug returns names no file of the directory,
\* also when the base and all its -2 ... -999 names exist and the timestamp
\* fallback is taken.
SlugReturnedIsUnused ==
    SlugReturned => slugCall[1].result \notin planDir

\* C7: generateUniqueSlug makes at most 999 existence probes (the base name
\* and the counters 2 to 999), each step of the loop is one more probe of
\* the next counter, and while it has not returned a step is possible.
SlugProbesBounded ==
    slugCall # None =>
        /\ slugCall[1].probes <= 999
        /\ slugCall[1].pc = "loop" =>
              /\ slugCall[1].counter = slugCall[1].probes + 1
              /\ slugCall[1].counter <= 1000
        /\ slugCall[1].pc # "returned" => ENABLED NextSlug

\* the fallback is reached after all 999 probes found their name taken
SlugProbesExhausted ==
    /\ SlugReturned
    /\ slugCall[1].fallback
    /\ slugCall[1].probes = 999

(***************************************************************************)
(* atomic.ts: atomicWrite.  A file holds the sequence of chunks written to *)
(* it so far; Bun.write creates or truncates its file, then writes the     *)
(* content chunk by chunk, so a file being written holds a strict prefix.  *)
(***************************************************************************)
WriterIds == 1..NWriters

\* the content call w writes, and the content the target may hold before
Content(w) == [i \in 1..NChunks |-> <<w, i>>]
PriorContent == [i \in 1..NChunks |-> <<0, i>>]

\* targetPath, the same for every call
Target == <<"plan.md">>

\* join(dir, `.tmp-${crypto.randomUUID()}`)
TempPath(uuid) == <<".tmp-", uuid>>

Uuids == 1..NWriters

Started(w) == writers[w].pc # "idle"

\* a generator that may repeat a value
RepeatingUuids == Uuids

\* crypto.randomUUID(): a value no earlier call drew
FreshUuids == Uuids \ {writers[w].uuid : w \in {v \in WriterIds : Started(v)}}

\* writing in place
WritePathInPlace(w) == Target

\* the path Bun.write is given
WritePath(w) == TempPath(writers[w].uuid)

\* a catch block that lets the cleanup's error through
RaisedLast(err, cleanupError) == IF cleanupError # "" THEN cleanupError ELSE err

\* lines 40-49: the cleanup's error is caught and dropped, throw err
Raised(err, cleanupError) == err

Remove(d, path) == [q \in (DOMAIN d) \ {path} |-> d[q]]
Put(d, path, data) == [q \in (DOMAIN d) \cup {path} |->
                          IF q = path THEN data ELSE d[q]]

InitWrite ==
    /\ session = None
    /\ sessions = <<>>
    /\ prior \in {None, Some(PriorContent)}
    /\ disk = IF prior = None THEN <<>> ELSE Put(<<>>, Target, prior[1])
    /\ writers = [w \in WriterIds |-> [pc |-> "idle", uuid |-> 0, cause |-> "",
                                         cleanup |-> "", error |-> ""]]
    /\ lastRead = None
    /\ vpReq = <<>> /\ vpBases = <<>> /\ vpOut = None
    /\ sanIn = <<>> /\ sanOut = None /\ sanOut2 = None
    /\ planDir = {} /\ slugCall = None
    /\ files = {} /\ baseDir = <<>> /\ projectRoot = <<>>
    /\ docOut = None /\ docRead = None
    /\ decision = None /\ resolveCalls = <<>> /\ delivered = None /\ reqs = <<>>
    /\ upload = None /\ tmpFiles = <<>> /\ tmpDirMode = None
    /\ imgOut = None /\ bind = None /\ multi = None

FrameWrite ==
    UNCHANGED <<varsValidate, varsSanitize, varsSlug, varsDoc, varsBroker, varsUpload,
                 varsImage, varsBind, varsMulti>>

\* lines 26-30: mkdirSync succeeds and the temp path is drawn
WBegin(w) ==
    /\ writers[w].pc = "idle"
    /\ \E u \in FreshUuids :
         writers' = [writers EXCEPT ![w] = [@ EXCEPT !.pc = "write", !.uuid = u]]
    /\ UNCHANGED <<disk, prior, lastRead>>
    /\ FrameWrite

\* line 27: mkdirSync throws, outside the try block
WMkdirFails(w) ==
    /\ writers[w].pc = "idle"
    /\ writers' = [writers EXCEPT ![w] = [@ EXCEPT !.pc = "failed", !.cause = "mkdir",
                                                      !.error = "mkdir"]]
    /\ UNCHANGED <<disk, prior, lastRead>>
    /\ FrameWrite

\* line 34: Bun.write creates or truncates its file
WOpen(w) ==
    /\ writers[w].pc = "write"
    /\ disk' = Put(disk, WritePath(w), <<>>)
    /\ writers' = [writers EXCEPT ![w] = [@ EXCEPT !.pc = "writing"]]
    /\ UNCHANGED <<prior, lastRead>>
    /\ FrameWrite

\* line 34: Bun.write writes the next chunk of the content
WChunk(w) ==
    /\ writers[w].pc = "writing"
    /\ WritePath(w) \in DOMAIN disk
    /\ LET n == Len(disk[WritePath(w)]) + 1
       IN  /\ n <= NChunks
           /\ disk' = Put(disk, WritePath(w), Append(disk[WritePath(w)], Content(w)[n]))
           /\ writers' = [writers EXCEPT ![w] =
                             [@ EXCEPT !.pc = IF n = NChunks THEN "rename" ELSE "writing"]]
    /\ UNCHANGED <<prior, lastRead>>
    /\ FrameWrite

\* line 34: Bun.write fails, before or after some chunks (lines 40-49 follow)
WWriteFails(w) ==
    /\ writers[w].pc \in {"write", "writing"}
    /\ writers' = [writers EXCEPT ![w] = [@ EXCEPT !.pc = "cleanup", !.cause = "write"]]
    /\ UNCHANGED <<disk, prior, lastRead>>
    /\ FrameWrite

\* line 37: renameSync puts the temp file in the target's place, in one step
WRename(w) ==
    /\ writers[w].pc = "rename"
    /\ TempPath(writers[w].uuid) \in DOMAIN disk
    /\ disk' = Remove(Put(disk, Target, disk[TempPath(writers[w].uuid)]),
                      TempPath(writers[w].uuid))
    /\ writers' = [writers EXCEPT ![w] = [@ EXCEPT !.pc = "done"]]
    /\ UNCHANGED <<prior, lastRead>>
    /\ FrameWrite

\* line 37: renameSync throws
WRenameFails(w) ==
    /\ writers[w].pc = "rename"
    /\ writers' = [writers EXCEPT ![w] = [@ EXCEPT !.pc = "cleanup", !.cause = "rename"]]
    /\ UNCHANGED <<disk, prior, lastRead>>
    /\ FrameWrite

\* lines 42-49: the temp file is deleted if it exists, and the error rethrown
WCleanup(w) ==
    /\ writers[w].pc = "cleanup"
    /\ disk' = IF TempPath(writers[w].uuid) \in DOMAIN disk
               THEN Remove(disk, TempPath(writers[w].uuid)) ELSE disk
    /\ writers' = [writers EXCEPT ![w] =
                      [@ EXCEPT !.pc = "failed", !.cleanup = "done",
                                !.error = Raised(writers[w].cause, "")]]
    /\ UNCHANGED <<prior, lastRead>>
    /\ FrameWrite

\* lines 46-49: unlinkSync throws, the cleanup error is dropped
WCleanupFails(w) ==
    /\ writers[w].pc = "cleanup"
    /\ TempPath(writers[w].uuid) \in DOMAIN disk
    /\ writers' = [writers EXCEPT ![w] =
                      [@ EXCEPT !.pc = "failed", !.cleanup = "failed",
                                !.error = Raised(writers[w].cause, "unlink")]]
    /\ UNCHANGED <<disk, prior, lastRead>>
    /\ FrameWrite

\* what the target holds: None when absent
TargetState == IF Target \in DOMAIN disk THEN Some(disk[Target]) ELSE None

\* another process reads the target
ReadTarget ==
    /\ lastRead' = Some(TargetState)
    /\ lastRead' # lastRead
    /\ UNCHANGED <<disk, prior, writers>>
    /\ FrameWrite

NextWrite ==
    \/ \E w \in WriterIds :
          \/ WBegin(w) \/ WMkdirFails(w) \/ WOpen(w) \/ WChunk(w)
          \/ WWriteFails(w) \/ WRename(w) \/ WRenameFails(w)
          \/ WCleanup(w) \/ WCleanupFails(w)
    \/ ReadTarget

OnlyCaller(w) == \A v \in WriterIds \ {w} : writers[v].pc = "idle"
Finished(w) == writers[w].pc \in {"done", "failed"}

\* C4: an atomicWrite that returns leaves the target holding exactly its
\* content; one that fails at any step leaves the target absent or holding
\* exactly what it held before the call; at no step of the call does the
\* target hold anything else.
AtomicWriteAllOrNothing ==
    \A w \in WriterIds :
        OnlyCaller(w) =>
            /\ writers[w].pc = "done" => TargetState = Some(Content(w))
            /\ writers[w].pc = "failed" => TargetState = prior
            /\ TargetState \in {prior, Some(Content(w))}

\* a call failed at the rename, over a target that had a content
AtomicWriteFailedAtRename ==
    \E w \in WriterIds :
        /\ OnlyCaller(w)
        /\ writers[w].pc = "failed"
        /\ writers[w].error = "rename"
        /\ prior # None

\* C19: an atomicWrite that fails during the temp write or the rename
\* attempts to delete its temp file before it raises; what it raises is the
\* original failure, also when the deletion itself fails; and when the
\* deletion succeeds no temp file of the call remains in the directory.
CleanupKeepsOriginalFailure ==
    \A w \in WriterIds :
        /\ writers[w].pc = "cleanup" =>
              writers[w].cause \in {"write", "rename"} /\ writers[w].error = ""
        /\ (writers[w].pc = "failed" /\ writers[w].cause \in {"write", "rename"}) =>
              /\ writers[w].cleanup \in {"done", "failed"}
              /\ writers[w].error = writers[w].cause
              /\ writers[w].cleanup = "done" =>
                    TempPath(writers[w].uuid) \notin DOMAIN disk

\* a call failed at the rename and then failed to delete its temp file,
\* which remains
CleanupFailedAfterRenameFailed ==
    \E w \in WriterIds :
        /\ writers[w].pc = "failed"
        /\ writers[w].cause = "rename"
        /\ writers[w].cleanup = "failed"
        /\ TempPath(writers[w].uuid) \in DOMAIN disk

\* C5: concurrent calls on one target use pairwise distinct temp files, a
\* reader of the target sees the prior content or the complete content of
\* one call, and when all calls have finished the target holds the complete
\* content of one call that returned (the prior content if none returned).
ConcurrentWritesIsolated ==
    /\ \A v, w \in WriterIds :
          (v # w /\ writers[v].uuid # 0 /\ writers[w].uuid # 0)
              => TempPath(writers[v].uuid) # TempPath(writers[w].uuid)
    /\ lastRead # None =>
          lastRead[1] \in {prior} \cup {Some(Content(w)) : w \in WriterIds}
    /\ (\A w \in WriterIds : Finished(w)) =>
          IF \E w \in WriterIds : writers[w].pc = "done"
          THEN \E w \in WriterIds :
                  writers[w].pc = "done" /\ TargetState = Some(Content(w))
          ELSE TargetState = prior

\* every call returned, and the reader saw the target while the last temp
\* file was still being written
ConcurrentWritesAllReturned ==
    /\ \A w \in WriterIds : writers[w].pc = "done"
    /\ lastRead # None
    /\ lastRead[1] # TargetState

(***************************************************************************)
(* The document server, GET /api/doc.  The disk is the set of its files,   *)
(* each an absolute normalized path; a file's content is named by its      *)
(* path.  There are no symbolic links.                                     *)
(***************************************************************************)
\* the position of the first occurrence of pat in s, 0 without one
IndexOf(s, pat) ==
    LET hits == {i \in 1..(Len(s) - Len(pat) + 1) : SubSeq(s, i, i + Len(pat) - 1) = pat}
    IN  IF hits = {} THEN 0 ELSE CHOOSE i \in hits : \A j \in hits : i <= j

\* String.prototype.replace(pat, ""), pat a string: the first occurrence
RemoveFirst(s, pat) ==
    LET i == IndexOf(s, pat)
    IN  IF i = 0 THEN s ELSE SubSeq(s, 1, i - 1) \o SubSeq(s, i + Len(pat), Len(s))

\* the directories of the disk: the ancestors of its files, and the
\* session's two directories with their ancestors
Prefixes(segs) == {SubSeq(segs, 1, n) : n \in 0..Len(segs)}
Dirs ==
    UNION ({Prefixes(SegsOf(f)) \ {SegsOf(f)} : f \in files}
           \cup {Prefixes(SegsOf(baseDir)), Prefixes(SegsOf(projectRoot))})

\* the operating system's walk of an absolute path: every segment before
\* the last must be a directory, ".." steps to the parent
RECURSIVE Walk(_, _, _)
Walk(segs, at, dirs) ==
    IF segs = <<>> THEN Some(at)
    ELSE LET h == Head(segs)
         IN  IF h = <<>> \/ h = <<".">> THEN Walk(Tail(segs), at, dirs)
             ELSE IF h = <<".", ".">>
                  THEN Walk(Tail(segs), IF at = <<>> THEN at
                                        ELSE SubSeq(at, 1, Len(at) - 1), dirs)
                  ELSE IF Tail(segs) = <<>> THEN Some(Append(at, h))
                       ELSE IF Append(at, h) \in dirs
                            THEN Walk(Tail(segs), Append(at, h), dirs)
                            ELSE None

\* the file Bun.file(path) denotes, None when there is none
RealFile(path) ==
    LET w == Walk(Split(path, "/"), <<>>, Dirs)
    IN  IF w # None /\ AbsString(w[1]) \in files THEN Some(AbsString(w[1])) ELSE None

\* Bun.file(path).exists()
Exists(path) == RealFile(path) # None

\* glob.scan({cwd, onlyFiles}) for the pattern `**/${name}`, name a literal
\* segment: the paths relative to cwd of the files below cwd that end in name
GlobScan(cwd, name) ==
    LET below == {f \in files : f # cwd /\ StartsWith(f, cwd \o <<"/">>)}
        rel(f) == SubSeq(f, Len(cwd) + 2, Len(f))
    IN  {rel(f) : f \in {g \in below :
             \/ rel(g) = name
             \/ /\ Len(rel(g)) > Len(name)
                /\ SubSeq(rel(g), Len(rel(g)) - Len(name), Len(rel(g))) = <<"/">> \o name}}

\* more than one match
TooFewToBeAmbiguous(matches) == Cardinality(matches) > 2

\* line 180: matches.length > 1
IsAmbiguous(matches) == Cardinality(matches) > 1

Response(status, error) ==
    [status |-> status, error |-> error, list |-> {}, markdown |-> None,
     filepath |-> <<>>, isMain |-> FALSE, readOnly |-> TRUE,
     searched |-> FALSE, read |-> None,
     resolvedPath |-> <<>>, triedRoot |-> FALSE]

\* a response with the handler's trace: the value of resolvedPath when it
\* answered, whether it looked the request up under projectRoot (line 155)
\* and whether it ran the search (line 166)
Traced(r, resolvedPath, triedRoot, searched) ==
    [r EXCEPT !.resolvedPath = resolvedPath, !.triedRoot = triedRoot,
              !.searched = searched]

\* a resolver that looks under projectRoot first
RootFirst == projectRoot

\* line 149: a relative request is first resolved against baseDir
FirstLookupDir == baseDir

\* lines 130-229: the response to a linked-document request, with the file
\* read (read) and whether the search ran (searched); readOk says whether
\* file.text() succeeds
HandleLinkedDoc(requestedPath, readOk) ==
    LET absolute == StartsWith(requestedPath, <<"/">>)
        inBase == Resolve2(FirstLookupDir, requestedPath)
        projectResolved == Resolve2(projectRoot, requestedPath)
        found1 == IF absolute THEN Exists(requestedPath) ELSE Exists(inBase)
        found2 == ~absolute /\ ~found1 /\ Exists(projectResolved)
        resolved2 == IF absolute THEN requestedPath
                     ELSE IF found2 THEN projectResolved ELSE inBase
        searched == ~absolute /\ ~found1 /\ ~found2 /\ ~Includes(requestedPath, "/")
        matches == IF searched
                   THEN {Resolve2(projectRoot, m) :
                           m \in {g \in GlobScan(projectRoot, requestedPath) :
                                     Last(Split(g, "/")) = requestedPath}}
                   ELSE {}
        one == searched /\ Cardinality(matches) = 1
        resolvedPath == IF one THEN CHOOSE m \in matches : TRUE ELSE resolved2
        found == found1 \/ found2 \/ one
        isAllowed == \E base \in {baseDir, projectRoot} :
                        \/ resolvedPath = base
                        \/ StartsWith(resolvedPath, base \o <<"/">>)
    IN  Traced(
          IF searched /\ ~one /\ IsAmbiguous(matches)
          THEN [Response(400, "Ambiguous filename") EXCEPT
                   !.list = {RemoveFirst(m, projectRoot \o <<"/">>) : m \in matches}]
          ELSE IF ~isAllowed
          THEN Response(403, "Path traversal attempt blocked")
          ELSE IF ~found
          THEN Response(404, "File not found")
          ELSE IF ~readOk \/ RealFile(resolvedPath) = None
          THEN Response(500, "Failed to load file")
          ELSE [Response(200, "") EXCEPT
                   !.markdown = RealFile(resolvedPath),
                   !.filepath = resolvedPath,
                   !.read = RealFile(resolvedPath)],
          resolvedPath, ~absolute /\ ~found1, searched)

\* the files a disk of the model may hold
CandidateFiles ==
    { <<"/", "p", "/", "x">>,
      <<"/", "p", "/", "a", "/", "x">>,
      <<"/", "p", "/", "d", "/", "x">>,
      <<"/", "x">> }

\* the segments a requested path is made of
SegNames == {<<".", ".">>, <<"a">>, <<"d">>, <<"p">>, <<"x">>}

RECURSIVE SegLists(_)
SegLists(n) ==
    IF n = 0 THEN {<<>>}
    ELSE LET shorter == SegLists(n - 1)
         IN  shorter \cup {Append(l, g) : l \in shorter, g \in SegNames}

\* the requested paths: absolute, or relative (a bare filename among them)
DocRequests ==
    {JoinSegs(l) : l \in SegLists(MaxSegs) \ {<<>>}}
    \cup {Tail(JoinSegs(l)) : l \in SegLists(MaxSegs) \ {<<>>}}

InitDoc ==
    /\ session = None
    /\ sessions = <<>>
    /\ files \in SUBSET CandidateFiles
    /\ projectRoot = <<"/", "p">>
    /\ baseDir \in {<<"/", "p">>, <<"/", "p", "/", "d">>, <<"/", "e">>}
    /\ docOut = None
    /\ docRead = None
    /\ vpReq = <<>> /\ vpBases = <<>> /\ vpOut = None
    /\ sanIn = <<>> /\ sanOut = None /\ sanOut2 = None
    /\ planDir = {} /\ slugCall = None
    /\ disk = <<>> /\ prior = None /\ writers = <<>> /\ lastRead = None
    /\ decision = None /\ resolveCalls = <<>> /\ delivered = None /\ reqs = <<>>
    /\ upload = None /\ tmpFiles = <<>> /\ tmpDirMode = None
    /\ imgOut = None /\ bind = None /\ multi = None

FrameDoc ==
    UNCHANGED <<varsValidate, varsSanitize, varsSlug, varsWrite, varsBroker, varsUpload,
                 varsImage, varsBind, varsMulti>>

\* GET /api/doc?path=P
DocLinked ==
    /\ docOut = None
    /\ \E P \in DocRequests, readOk \in BOOLEAN :
         LET r == HandleLinkedDoc(P, readOk)
         IN  /\ docOut' = Some([req |-> P, readOk |-> readOk, resp |-> r])
             /\ docRead' = r.read
    /\ UNCHANGED <<files, baseDir, projectRoot>>
    /\ FrameDoc

NextDoc == DocLinked

\* path-segment containment of a real file in baseDir or projectRoot
InsideBases(path) ==
    \/ UnderBase(SegsOf(path), SegsOf(baseDir))
    \/ UnderBase(SegsOf(path), SegsOf(projectRoot))

\* C2: a linked-document request reads and returns a file only if the real
\* file lies inside baseDir or projectRoot, and a request whose chosen path
\* denotes a file outside them is answered 403.
DocReadsOnlyInsideBases ==
    docOut # None =>
        /\ docRead # None => InsideBases(docRead[1])
        /\ docOut[1].resp.status = 200 => InsideBases(docOut[1].resp.markdown[1])
        /\ docOut[1].resp.status = 403 => docRead = None

\* the files of the disk below projectRoot whose last segment is the name
FilesNamed(name) ==
    {f \in files : /\ UnderBase(SegsOf(f), SegsOf(projectRoot))
                   /\ Last(SegsOf(f)) = name}

\* the path of a file below projectRoot relative to it, "a/x" for "/p/a/x"
RelativeToRoot(f) ==
    Tail(JoinSegs(SubSeq(SegsOf(f), Len(SegsOf(projectRoot)) + 1, Len(SegsOf(f)))))

\* the outcome of a bare-filename request that exists neither in baseDir nor
\* in projectRoot, zeroStatus being the status when no file has the name
BareNameOutcome(zeroStatus) ==
    docOut # None =>
        LET P == docOut[1].req
            r == docOut[1].resp
            named == FilesNamed(P)
        IN  /\ Includes(P, "/") => ~r.searched
            /\ (/\ ~Includes(P, "/")
                /\ AbsString(ResolveSegs(baseDir, P)) \notin files
                /\ AbsString(ResolveSegs(projectRoot, P)) \notin files)
               => /\ r.searched
                  /\ named = {} => r.status = zeroStatus /\ docRead = None
                  /\ (Cardinality(named) = 1 /\ docOut[1].readOk) =>
                        /\ r.status = 200
                        /\ Some(r.filepath) = Some(CHOOSE f \in named : TRUE)
                        /\ docRead = Some(CHOOSE f \in named : TRUE)
                  /\ Cardinality(named) > 1 =>
                        /\ r.status = 400
                        /\ r.list = {RelativeToRoot(f) : f \in named}
                        /\ docRead = None

\* the request ".." when baseDir's parent is outside baseDir and projectRoot
ParentEscapes(P) ==
    /\ P = <<".", ".">>
    /\ ~UnderBase(ResolveSegs(baseDir, P), SegsOf(baseDir))
    /\ ~UnderBase(ResolveSegs(baseDir, P), SegsOf(projectRoot))

ExistsRelativeTo(dir, P) == AbsString(ResolveSegs(dir, P)) \in files

\* a relative request found neither under baseDir nor under projectRoot
FoundInNeither(P) ==
    /\ ~IsAbsolute(P)
    /\ ~ExistsRelativeTo(baseDir, P)
    /\ ~ExistsRelativeTo(projectRoot, P)

\* the bare-filename search is ambiguous
AmbiguousSearch(P) ==
    /\ FoundInNeither(P)
    /\ ~Includes(P, "/")
    /\ Cardinality(FilesNamed(P)) > 1

\* the path the resolution strategies choose for a request
ChosenPath(P) ==
    IF IsAbsolute(P) THEN P
    ELSE IF ExistsRelativeTo(baseDir, P) THEN AbsString(ResolveSegs(baseDir, P))
    ELSE IF ExistsRelativeTo(projectRoot, P) THEN AbsString(ResolveSegs(projectRoot, P))
    ELSE IF ~Includes(P, "/") /\ Cardinality(FilesNamed(P)) = 1
         THEN CHOOSE f \in FilesNamed(P) : TRUE
    ELSE AbsString(ResolveSegs(baseDir, P))

\* the status the outcomes' conditions give a request
ExpectedStatus(P, readOk) ==
    IF AmbiguousSearch(P) THEN 400
    ELSE IF ~InsideBases(ChosenPath(P)) THEN 403
    ELSE IF ~Exists(ChosenPath(P)) THEN 404
    ELSE IF ~readOk THEN 500
    ELSE 200

\* C20: the strategies are tried in a fixed order and the first success
\* ends the resolution.  An absolute request is used as it is, with no
\* lookup under projectRoot and no search; a relative request that exists
\* under baseDir resolves to the file under baseDir, also when it exists
\* under projectRoot too; projectRoot is consulted exactly when the lookup
\* under baseDir failed; the search runs exactly when both lookups failed
\* and the request has no separator.
ResolutionInFixedOrder ==
    docOut # None =>
        LET P == docOut[1].req
            r == docOut[1].resp
        IN  /\ IsAbsolute(P) =>
                  r.resolvedPath = P /\ ~r.triedRoot /\ ~r.searched
            /\ (~IsAbsolute(P) /\ ExistsRelativeTo(baseDir, P)) =>
                  /\ r.resolvedPath = AbsString(ResolveSegs(baseDir, P))
                  /\ ~r.triedRoot /\ ~r.searched
                  /\ r.status = 200 => r.read = Some(AbsString(ResolveSegs(baseDir, P)))
            /\ r.triedRoot <=> (~IsAbsolute(P) /\ ~ExistsRelativeTo(baseDir, P))
            /\ (r.triedRoot /\ ExistsRelativeTo(projectRoot, P)) =>
                  /\ r.resolvedPath = AbsString(ResolveSegs(projectRoot, P))
                  /\ ~r.searched
            /\ r.searched <=>
                  (FoundInNeither(P) /\ \A i \in 1..Len(P) : P[i] # "/")

\* a request that exists under baseDir and under projectRoot was served
\* from baseDir
ServedFromBaseDirFirst ==
    /\ docOut # None
    /\ baseDir # projectRoot
    /\ ~IsAbsolute(docOut[1].req)
    /\ ExistsRelativeTo(baseDir, docOut[1].req)
    /\ ExistsRelativeTo(projectRoot, docOut[1].req)
    /\ docOut[1].resp.status = 200
    /\ docOut[1].resp.filepath = AbsString(ResolveSegs(baseDir, docOut[1].req))

\* C16: a linked-document request is answered 400 iff the bare-filename
\* search is ambiguous, 403 iff the chosen path is outside baseDir and
\* projectRoot, 404 iff the path is contained but no file was found, 500
\* for any other failure and 200 otherwise; the outcomes exclude each other
\* and every request is answered with one of them.
LinkedDocStatusByOutcome ==
    docOut # None =>
        /\ docOut[1].resp.status \in {200, 400, 403, 404, 500}
        /\ docOut[1].resp.status = ExpectedStatus(docOut[1].req, docOut[1].readOk)

(***************************************************************************)
(* The decision broker: POST /api/approve, POST /api/feedback and the      *)
(* caller's waitForDecision.  A handler is suspended at `await req.json()` *)
(* and other requests run in between.                                      *)
(***************************************************************************)
ReqIds == 1..NReqs

\* the session's filepath option
Filepath == "doc.md"

\* request bodies: parsed says whether req.json() succeeds, isNull whether
\* it yields the JSON value null; a field that is None is absent from the
\* JSON object
Body(parsed, feedback, annotations, agentSwitch, linkedDocs) ==
    [parsed |-> parsed, isNull |-> FALSE, feedback |-> feedback,
     annotations |-> annotations, agentSwitch |-> agentSwitch,
     linkedDocs |-> linkedDocs]

Unparsable == Body(FALSE, None, None, None, None)

\* the request body "null"
NullBody == [Body(TRUE, None, None, None, None) EXCEPT !.isNull = TRUE]

ApproveBodies ==
    { Unparsable, NullBody,
      Body(TRUE, None, None, None, None),
      Body(TRUE, None, None, Some("build"), None) }

\* linkedDocs: wellFormed says whether viewed and requested are both arrays
LinkedDocs(viewed, requested) ==
    [wellFormed |-> TRUE, viewed |-> viewed, requested |-> requested]
MalformedLinkedDocs == [wellFormed |-> FALSE, viewed |-> <<>>, requested |-> <<>>]

FeedbackBodies ==
    { Unparsable, NullBody,
      Body(TRUE, None, None, None, None),
      Body(TRUE, Some("fix the intro"), Some(<<"note-1">>), Some("plan"), None),
      Body(TRUE, Some("see links"), Some(<<>>), None,
           Some(LinkedDocs(<<"a.md", "b.md">>, <<"b.md">>))),
      Body(TRUE, Some("viewed"), Some(<<"note-2">>), None,
           Some(LinkedDocs(<<"a.md">>, <<>>))),
      Body(TRUE, Some("bad links"), Some(<<>>), None, Some(MalformedLinkedDocs)),
      Body(TRUE, Some("twice"), None, None,
           Some(LinkedDocs(<<"a.md", "a.md">>, <<"b.md", "b.md">>))) }

\* the parts of a feedback text, in order
RawPart(text) == <<"raw", text>>
HeaderPart == <<"linked-documents", "">>
RequestedPart(path) == <<"review-requested", path>>
ViewedPart(path) == <<"viewed-only", path>>
RunPart == <<"to-review-run", "">>
CommandPart(path) == <<"/plannotator-doc", path>>
StatusPart == <<"status-changes-requested", Filepath>>

InSeq(q, x) == \E i \in 1..Len(q) : q[i] = x

\* lines 353-378: the enhanced feedback of a parsed body
EnhancedFeedback(body) ==
    LET raw == IF body.feedback # None THEN body.feedback[1] ELSE ""
        docs == body.linkedDocs
        linked ==
            IF docs # None /\ (Len(docs[1].viewed) > 0 \/ Len(docs[1].requested) > 0)
            THEN <<HeaderPart>>
                 \o [i \in 1..Len(docs[1].requested) |-> RequestedPart(docs[1].requested[i])]
                 \o [i \in 1..Len(SelectSeq(docs[1].viewed,
                                            LAMBDA v : ~InSeq(docs[1].requested, v)))
                       |-> ViewedPart(SelectSeq(docs[1].viewed,
                                            LAMBDA v : ~InSeq(docs[1].requested, v))[i])]
                 \o (IF Len(docs[1].requested) > 0
                     THEN <<RunPart>>
                          \o [i \in 1..Len(docs[1].requested) |->
                                CommandPart(docs[1].requested[i])]
                     ELSE <<>>)
            ELSE <<>>
    IN  <<RawPart(raw)>> \o linked \o <<StatusPart>>

\* lines 329-333: the decision of an approval; an unparsable body is {}
ApprovePayload(body) ==
    [approved |-> TRUE, feedback |-> <<RawPart("LGTM - no changes needed")>>,
     annotations |-> None,
     agentSwitch |-> IF body.parsed THEN body.agentSwitch ELSE None]

\* a decision that passes body.annotations on as it is
FeedbackPayloadWithoutDefault(body) ==
    [approved |-> FALSE, feedback |-> EnhancedFeedback(body),
     annotations |-> body.annotations,
     agentSwitch |-> body.agentSwitch]

\* lines 380-385: the decision of a feedback
FeedbackPayload(body) ==
    [approved |-> FALSE, feedback |-> EnhancedFeedback(body),
     annotations |-> Some(IF body.annotations # None THEN body.annotations[1] ELSE <<>>),
     agentSwitch |-> body.agentSwitch]

\* line 331: body.agentSwitch throws for the body null (an unparsable body
\* was replaced by {} at line 325)
ApproveThrows(body) == body.parsed /\ body.isNull

\* a handler that fails only for a body that req.json() rejects
ThrowsOnlyUnparsable(body) == ~body.parsed

\* lines 345-357: req.json() rejects, body.feedback throws for the body
\* null, or linkedDocs.viewed.length throws
FeedbackThrows(body) ==
    \/ ~body.parsed
    \/ body.isNull
    \/ body.linkedDocs # None /\ ~body.linkedDocs[1].wellFormed

\* a broker whose resolve function rejects a second fulfilment
ResolveThrowsWhenSettled(current) == current # None

\* lines 105-112: the resolve function of a Promise never throws
ResolveDecisionThrows(current) == FALSE

\* lines 335-338 and 387-390: {ok: true}, or {error} with status 500 from
\* the catch
Answered(req, threw, late) ==
    [req EXCEPT !.pc = "answered", !.status = IF threw THEN 500 ELSE 200,
                !.ok = ~threw, !.late = late]

\* a broker whose last fulfilment wins
SettleOverwriting(current, payload) == Some(payload)

\* lines 105-112: the promise's resolve function settles a pending promise
\* and leaves a settled one as it is
Settle(current, payload) == IF current = None THEN Some(payload) ELSE current

InitBroker ==
    /\ session = None
    /\ sessions = <<>>
    /\ decision = None
    /\ resolveCalls = <<>>
    /\ delivered = None
    /\ reqs = [i \in ReqIds |-> [pc |-> "none", route |-> "", body |-> Unparsable,
                                 status |-> 0, ok |-> FALSE, late |-> FALSE]]
    /\ vpReq = <<>> /\ vpBases = <<>> /\ vpOut = None
    /\ sanIn = <<>> /\ sanOut = None /\ sanOut2 = None
    /\ planDir = {} /\ slugCall = None
    /\ disk = <<>> /\ prior = None /\ writers = <<>> /\ lastRead = None
    /\ files = {} /\ baseDir = <<>> /\ projectRoot = <<>>
    /\ docOut = None /\ docRead = None
    /\ upload = None /\ tmpFiles = <<>> /\ tmpDirMode = None
    /\ imgOut = None /\ bind = None /\ multi = None

FrameBroker ==
    UNCHANGED <<varsValidate, varsSanitize, varsSlug, varsWrite, varsDoc, varsUpload,
                 varsImage, varsBind, varsMulti>>

\* lines 323-325: an approve request arrives and awaits its body
ApproveArrives(i) ==
    /\ reqs[i].pc = "none"
    /\ \E body \in ApproveBodies :
         reqs' = [reqs EXCEPT ![i] = [@ EXCEPT !.pc = "parsing", !.route = "approve",
                                                !.body = body]]
    /\ UNCHANGED <<decision, resolveCalls, delivered>>
    /\ FrameBroker

\* lines 343-345: a feedback request arrives and awaits its body
FeedbackArrives(i) ==
    /\ reqs[i].pc = "none"
    /\ \E body \in FeedbackBodies :
         reqs' = [reqs EXCEPT ![i] = [@ EXCEPT !.pc = "parsing", !.route = "feedback",
                                                !.body = body]]
    /\ UNCHANGED <<decision, resolveCalls, delivered>>
    /\ FrameBroker

\* lines 325-339: the approve handler resumes, fulfils and answers
ApproveResumes(i) ==
    /\ reqs[i].pc = "parsing"
    /\ reqs[i].route = "approve"
    /\ ~ApproveThrows(reqs[i].body)
    /\ decision' = Settle(decision, ApprovePayload(reqs[i].body))
    /\ resolveCalls' = Append(resolveCalls, ApprovePayload(reqs[i].body))
    /\ reqs' = [reqs EXCEPT ![i] =
                    Answered(@, ResolveDecisionThrows(decision), decision # None)]
    /\ UNCHANGED delivered
    /\ FrameBroker

\* lines 331, 335-338: the approve handler throws and answers 500
ApproveFails(i) ==
    /\ reqs[i].pc = "parsing"
    /\ reqs[i].route = "approve"
    /\ ApproveThrows(reqs[i].body)
    /\ reqs' = [reqs EXCEPT ![i] = Answered(@, TRUE, decision # None)]
    /\ UNCHANGED <<decision, resolveCalls, delivered>>
    /\ FrameBroker

\* lines 345-387: the feedback handler resumes, fulfils and answers
FeedbackResumes(i) ==
    /\ reqs[i].pc = "parsing"
    /\ reqs[i].route = "feedback"
    /\ ~FeedbackThrows(reqs[i].body)
    /\ decision' = Settle(decision, FeedbackPayload(reqs[i].body))
    /\ resolveCalls' = Append(resolveCalls, FeedbackPayload(reqs[i].body))
    /\ reqs' = [reqs EXCEPT ![i] =
                    Answered(@, ResolveDecisionThrows(decision), decision # None)]
    /\ UNCHANGED delivered
    /\ FrameBroker

\* lines 388-391: the feedback handler throws and answers 500
FeedbackFails(i) ==
    /\ reqs[i].pc = "parsing"
    /\ reqs[i].route = "feedback"
    /\ FeedbackThrows(reqs[i].body)
    /\ reqs' = [reqs EXCEPT ![i] = Answered(@, TRUE, decision # None)]
    /\ UNCHANGED <<decision, resolveCalls, delivered>>
    /\ FrameBroker

\* line 435: the caller's await of waitForDecision() resumes
DecisionDelivered ==
    /\ decision # None
    /\ delivered = None
    /\ delivered' = decision
    /\ UNCHANGED <<decision, resolveCalls, reqs>>
    /\ FrameBroker

NextBroker ==
    \/ \E i \in ReqIds :
          \/ ApproveArrives(i) \/ FeedbackArrives(i)
          \/ ApproveResumes(i) \/ ApproveFails(i)
          \/ FeedbackResumes(i) \/ FeedbackFails(i)
    \/ DecisionDelivered

\* C1: whatever the order of the approve and feedback requests, the broker
\* holds, and waitForDecision delivers, exactly the payload of the first
\* call of resolveDecision; later calls change neither.
FirstFulfilmentWins ==
    /\ decision = None <=> resolveCalls = <<>>
    /\ decision # None => decision = Some(resolveCalls[1])
    /\ delivered # None => delivered = Some(resolveCalls[1])

\* a later, different fulfilment was attempted after the decision was
\* delivered
SecondFulfilmentAttempted ==
    /\ delivered # None
    /\ Len(resolveCalls) >= 2
    /\ resolveCalls[2] # resolveCalls[1]
    /\ resolveCalls[2].approved # resolveCalls[1].approved

\* a feedback whose JSON is an object and whose linkedDocs, when given,
\* holds its two arrays
WellFormed(req) ==
    /\ req.route = "feedback"
    /\ req.body.parsed /\ ~req.body.isNull
    /\ req.body.linkedDocs # None => req.body.linkedDocs[1].wellFormed

\* C14 as stated: an approve request, or a well-formed feedback request,
\* handled after the broker has settled is still answered {ok: true} with
\* status 200, however many such late requests there are.
LateRequestsAnsweredOk ==
    \A i \in ReqIds :
        (reqs[i].pc = "answered" /\ reqs[i].late
            /\ (reqs[i].route = "approve" \/ WellFormed(reqs[i]))) =>
            reqs[i].status = 200 /\ reqs[i].ok

\* C14, amended: an approve request whose body is anything but the JSON
\* value null (unparsable bodies included), or a well-formed feedback
\* request, handled after the broker has settled is still answered
\* {ok: true} with status 200, however many such late requests there are.
LateAcceptedRequestsAnsweredOk ==
    \A i \in ReqIds :
        (reqs[i].pc = "answered" /\ reqs[i].late
            /\ \/ reqs[i].route = "approve" /\ ~reqs[i].body.isNull
               \/ WellFormed(reqs[i])) =>
            reqs[i].status = 200 /\ reqs[i].ok

\* a late approve and a late feedback were both answered
TwoLateRequestsAnswered ==
    \E i, j \in ReqIds :
        /\ i # j
        /\ reqs[i].pc = "answered" /\ reqs[i].late /\ reqs[i].route = "approve"
        /\ reqs[j].pc = "answered" /\ reqs[j].late /\ reqs[j].route = "feedback"
        /\ WellFormed(reqs[j])

(***************************************************************************)
(* POST /api/upload.  A file name is a sequence of characters in which     *)
(* "png", "PNG" and "exe" stand for those runs of letters.                 *)
(***************************************************************************)
\* path.extname: the extension of the last path component, from its last
\* "."; empty without a ".", for a component that starts with its only ".",
\* and for ".."; trailing slashes are skipped
Extname(path) ==
    LET stripped == TrimRight(path, {"/"})
        base == IF stripped = <<>> THEN <<>> ELSE Last(Split(stripped, "/"))
        dots == {i \in 1..Len(base) : base[i] = "."}
        startDot == IF dots = {} THEN 0 ELSE CHOOSE i \in dots : \A j \in dots : j <= i
    IN  IF startDot = 0 \/ startDot = 1 THEN <<>>
        ELSE IF base[1] = "." /\ startDot = Len(base) /\ startDot = 2 THEN <<>>
        ELSE SubSeq(base, startDot, Len(base))

\* String.prototype.toLowerCase
LowerChar(c) == IF c = "PNG" THEN "png" ELSE c
ToLowerCase(str) == [i \in 1..Len(str) |-> LowerChar(str[i])]

\* security.ts, lines 10-19
ALLOWED_IMAGE_EXTENSIONS ==
    { <<".", e>> : e \in {"png", "jpg", "jpeg", "gif", "webp", "svg", "bmp", "ico"} }

isAllowedImageExtension(filename) ==
    ToLowerCase(Extname(filename)) \in ALLOWED_IMAGE_EXTENSIONS

\* part_001 line 278: 10 * 1024 * 1024
MAX_FILE_SIZE == 10485760

\* the modes of lines 292 and 296: 0o700 and 0o600
DirMode == 448
FileMode == 384

\* a size check that also refuses a file of exactly the limit
TooLargeInclusive(size) == size >= MAX_FILE_SIZE

\* line 279: file.size > MAX_FILE_SIZE
TooLarge(size) == size > MAX_FILE_SIZE

\* lines 289-293: the path the upload is written to
UploadPath(name, uuid) ==
    LET safeFilename == sanitizeFilename(name)
        last == Last(Split(safeFilename, "."))
        ext == IF last = <<>> THEN <<"png">> ELSE last
    IN  <<"/", "tmp", "/", "plannotator", "/", uuid, ".">> \o ext

UploadNameAlphabet == {"a", ".", "/", "png", "PNG", "exe"}
UploadNames == StringsUpTo(UploadNameAlphabet, MaxUploadName)
\* 1 KiB, the limit, one byte more, 12 MiB
UploadSizes == {1024, MAX_FILE_SIZE, MAX_FILE_SIZE + 1, 12582912}

\* what a request carries: a body that is no form, a form without the
\* field "file", a form with a file
UploadBodies ==
    { [form |-> FALSE, file |-> None], [form |-> TRUE, file |-> None] }
    \cup { [form |-> TRUE, file |-> Some([name |-> n, size |-> z])] :
             n \in UploadNames, z \in UploadSizes }

InitUpload ==
    /\ session = None
    /\ sessions = <<>>
    /\ upload = None
    /\ tmpFiles = <<>>
    /\ tmpDirMode = None
    /\ vpReq = <<>> /\ vpBases = <<>> /\ vpOut = None
    /\ sanIn = <<>> /\ sanOut = None /\ sanOut2 = None
    /\ planDir = {} /\ slugCall = None
    /\ disk = <<>> /\ prior = None /\ writers = <<>> /\ lastRead = None
    /\ files = {} /\ baseDir = <<>> /\ projectRoot = <<>>
    /\ docOut = None /\ docRead = None
    /\ decision = None /\ resolveCalls = <<>> /\ delivered = None /\ reqs = <<>>
    /\ imgOut = None /\ bind = None /\ multi = None

FrameUpload ==
    UNCHANGED <<varsValidate, varsSanitize, varsSlug, varsWrite, varsDoc, varsBroker,
                 varsImage, varsBind, varsMulti>>

Answer(status, path) == [upload[1] EXCEPT !.pc = "answered", !.status = status, !.path = path]

\* lines 269-271: the request arrives and awaits req.formData()
UploadArrives ==
    /\ upload = None
    /\ \E body \in UploadBodies :
         upload' = Some([pc |-> "parsing", body |-> body, status |-> 0, path |-> <<>>])
    /\ UNCHANGED <<tmpFiles, tmpDirMode>>
    /\ FrameUpload

\* lines 271, 298-300: req.formData() rejects
UploadParseFails ==
    /\ upload # None /\ upload[1].pc = "parsing"
    /\ ~upload[1].body.form
    /\ upload' = Some(Answer(500, <<>>))
    /\ UNCHANGED <<tmpFiles, tmpDirMode>>
    /\ FrameUpload

Parsed == upload # None /\ upload[1].pc = "parsing" /\ upload[1].body.form

\* lines 272-275: no file field
UploadMissing ==
    /\ Parsed
    /\ upload[1].body.file = None
    /\ upload' = Some(Answer(400, <<>>))
    /\ UNCHANGED <<tmpFiles, tmpDirMode>>
    /\ FrameUpload

\* lines 278-281: the file is over the size limit
UploadTooLarge ==
    /\ Parsed
    /\ upload[1].body.file # None
    /\ TooLarge(upload[1].body.file[1].size)
    /\ upload' = Some(Answer(413, <<>>))
    /\ UNCHANGED <<tmpFiles, tmpDirMode>>
    /\ FrameUpload

\* lines 284-286: the extension is not allowed
UploadBadExtension ==
    /\ Parsed
    /\ upload[1].body.file # None
    /\ ~TooLarge(upload[1].body.file[1].size)
    /\ ~isAllowedImageExtension(upload[1].body.file[1].name)
    /\ upload' = Some(Answer(415, <<>>))
    /\ UNCHANGED <<tmpFiles, tmpDirMode>>
    /\ FrameUpload

UploadPasses ==
    /\ Parsed
    /\ upload[1].body.file # None
    /\ ~TooLarge(upload[1].body.file[1].size)
    /\ isAllowedImageExtension(upload[1].body.file[1].name)

\* lines 289-296: the checks pass, the directory is made and Bun.write
\* creates the file with its mode and starts to write it
UploadStartsWrite ==
    /\ UploadPasses
    /\ \E uuid \in {"uuid-1", "uuid-2"} :
         LET tempPath == UploadPath(upload[1].body.file[1].name, uuid)
         IN  /\ tmpFiles' = Put(tmpFiles, tempPath, [mode |-> FileMode, complete |-> FALSE])
             /\ upload' = Some([upload[1] EXCEPT !.pc = "writing", !.path = tempPath])
    /\ tmpDirMode' = Some(DirMode)
    /\ FrameUpload

\* line 292: mkdirSync throws
UploadMkdirFails ==
    /\ UploadPasses
    /\ upload' = Some(Answer(500, <<>>))
    /\ UNCHANGED <<tmpFiles, tmpDirMode>>
    /\ FrameUpload

\* lines 296-297: Bun.write completes and the path is returned
UploadWritten ==
    /\ upload # None /\ upload[1].pc = "writing"
    /\ tmpFiles' = Put(tmpFiles, upload[1].path, [mode |-> FileMode, complete |-> TRUE])
    /\ upload' = Some(Answer(200, upload[1].path))
    /\ UNCHANGED tmpDirMode
    /\ FrameUpload

\* lines 296, 298-300: Bun.write rejects, the file is left as it is
UploadWriteFails ==
    /\ upload # None /\ upload[1].pc = "writing"
    /\ upload' = Some(Answer(500, <<>>))
    /\ UNCHANGED <<tmpFiles, tmpDirMode>>
    /\ FrameUpload

NextUpload ==
    \/ UploadArrives \/ UploadParseFails
    \/ UploadMissing \/ UploadTooLarge \/ UploadBadExtension
    \/ UploadStartsWrite \/ UploadMkdirFails \/ UploadWritten \/ UploadWriteFails

\* no permission bit of group or others
OwnerOnly(mode) == mode % 64 = 0

UploadDir == <<"/", "tmp", "/", "plannotator", "/">>

\* C10: an upload writes a file into the temp directory only if the file
\* field is present, its size is at most 10 MiB and its extension is
\* allow-listed; a missing file is answered 400, an oversize file 413
\* (before the extension is looked at), a disallowed extension 415, and a
\* refused upload writes nothing; an accepted one returns the path of an
\* existing, completely written file of /tmp/plannotator with owner-only
\* permissions.
UploadChecked ==
    upload # None =>
        LET u == upload[1]
            file == u.body.file
            answered == u.pc = "answered"
        IN  /\ (tmpFiles # <<>> \/ tmpDirMode # None) =>
                  /\ u.body.form /\ file # None
                  /\ file[1].size <= 10485760
                  /\ isAllowedImageExtension(file[1].name)
            /\ (answered /\ u.body.form /\ file = None) => u.status = 400
            /\ (answered /\ file # None /\ file[1].size > 10485760) => u.status = 413
            /\ (answered /\ file # None /\ file[1].size <= 10485760
                  /\ ~isAllowedImageExtension(file[1].name)) => u.status = 415
            /\ (answered /\ u.status \in {400, 413, 415}) =>
                  tmpFiles = <<>> /\ tmpDirMode = None
            /\ (answered /\ u.status = 200) =>
                  /\ u.path \in DOMAIN tmpFiles
                  /\ tmpFiles[u.path].complete
                  /\ OwnerOnly(tmpFiles[u.path].mode)
                  /\ StartsWith(u.path, UploadDir)
                  /\ ~Includes(SubSeq(u.path, Len(UploadDir) + 1, Len(u.path)), "/")

\* a file of exactly 10 MiB with an upper-case extension was accepted
UploadAcceptedAtLimit ==
    /\ upload # None
    /\ upload[1].pc = "answered"
    /\ upload[1].status = 200
    /\ upload[1].body.file[1].size = 10485760
    /\ upload[1].body.file[1].name = <<"a", ".", "PNG">>

(***************************************************************************)
(* GET /api/image (part_001, lines 244-266) and security.ts               *)
(* validateImagePath.                                                      *)
(***************************************************************************)
ErrInvalidImageExtension == "Invalid image extension"

\* security.ts, lines 96-107
validateImagePath(imagePath, allowedBases) ==
    LET validated == validatePath(imagePath, allowedBases)
    IN  IF ~validated.ok THEN validated
        ELSE IF ~isAllowedImageExtension(validated.path)
        THEN [ok |-> FALSE, path |-> <<>>, error |-> ErrInvalidImageExtension]
        ELSE validated

\* os.homedir()
HomeDir == <<"/", "h">>

\* line 251
ImageAllowedBases == << <<"/", "tmp", "/", "plannotator">>, HomeDir, baseDir >>

\* line 252: the route validates with validatePath
ImageValidate(imagePath, allowedBases) == validatePath(imagePath, allowedBases)

\* lines 245-265: the response; imagePath is None without the parameter
HandleImage(imagePath) ==
    IF imagePath = None \/ imagePath[1] = <<>>
    THEN [status |-> 400, body |-> None]
    ELSE LET v == ImageValidate(imagePath[1], ImageAllowedBases)
         IN  IF ~v.ok
             THEN (IF v.error = ErrPathNotAllowed
                   THEN [status |-> 403, body |-> None]
                   ELSE [status |-> 500, body |-> None])
             ELSE IF ~Exists(v.path) THEN [status |-> 404, body |-> None]
             ELSE [status |-> 200, body |-> RealFile(v.path)]

\* the files of the disk: images and other files, under the upload
\* directory, the home directory, the document directory and elsewhere
ImageFiles ==
    { <<"/", "tmp", "/", "plannotator", "/", "u", ".", "png">>,
      <<"/", "h", "/", "a", ".", "PNG">>,
      <<"/", "h", "/", "key">>,
      <<"/", "h", "/", "a", ".", "exe">>,
      <<"/", "d", "/", "a", ".", "png">>,
      <<"/", "d", "/", "notes", ".", "md">>,
      <<"/", "etc", "/", "a", ".", "png">> }

\* the requests: every file by its absolute path, by a path with "..", by a
\* path relative to the working directory; a missing and an empty parameter
ImageRequests ==
    {None, Some(<<>>)}
    \cup {Some(f) : f \in ImageFiles}
    \cup {Some(<<"/", "h", "/", ".", ".">> \o f) : f \in ImageFiles}
    \cup {Some(<<".", ".">> \o f) : f \in ImageFiles}
    \cup {Some(<<"/", "h", "/", "b", ".", "png">>)}

InitImage ==
    /\ session = None
    /\ sessions = <<>>
    /\ files \in SUBSET ImageFiles
    /\ baseDir \in {<<"/", "d">>, <<"/", "h", "/", "docs">>}
    /\ projectRoot = <<"/", "d">>
    /\ imgOut = None
    /\ docOut = None /\ docRead = None
    /\ vpReq = <<>> /\ vpBases = <<>> /\ vpOut = None
    /\ sanIn = <<>> /\ sanOut = None /\ sanOut2 = None
    /\ planDir = {} /\ slugCall = None
    /\ disk = <<>> /\ prior = None /\ writers = <<>> /\ lastRead = None
    /\ decision = None /\ resolveCalls = <<>> /\ delivered = None /\ reqs = <<>>
    /\ upload = None /\ tmpFiles = <<>> /\ tmpDirMode = None
    /\ bind = None /\ multi = None

\* GET /api/image?path=P
ImageRequested ==
    /\ imgOut = None
    /\ \E P \in ImageRequests :
         imgOut' = Some([req |-> P, resp |-> HandleImage(P)])
    /\ UNCHANGED <<varsValidate, varsSanitize, varsSlug, varsWrite, varsDoc,
                   varsBroker, varsUpload, varsBind, varsMulti>>

NextImage == ImageRequested

\* the file lies under the upload directory, the home directory or the
\* document directory
InsideImageBases(path) ==
    \E i \in DOMAIN ImageAllowedBases :
        UnderBase(SegsOf(path), SegsOf(ImageAllowedBases[i]))

\* C11: GET /api/image serves a file's content only if the path resolves
\* under the upload directory, the home directory or the document directory
\* and its extension is on the image allow-list; a file under an allowed
\* base with another extension is never served.
ImageServedOnlyIfAllowedImage ==
    (imgOut # None /\ imgOut[1].resp.status = 200) =>
        /\ InsideImageBases(imgOut[1].resp.body[1])
        /\ isAllowedImageExtension(imgOut[1].resp.body[1])
        /\ validateImagePath(imgOut[1].req[1], ImageAllowedBases).ok

(***************************************************************************)
(* startDocServer's bind loop (part_001, lines 115-122 and 399-437).      *)
(* bind.log holds one entry per Bun.serve call: the attempt number, the    *)
(* time of the call and what it did.  The clock advances by Bun.sleep.     *)
(***************************************************************************)
\* part_001, lines 69 and 70
MAX_RETRIES == 5
RETRY_DELAY_MS == 500

\* getServerPort(): the configured port
ConfiguredPorts == {0, 8080, 19432}

EADDRINUSE == "EADDRINUSE"
\* the errors Bun.serve throws: address in use, or another error
ServeErrors == {EADDRINUSE, "EACCES"}

\* every failure counts as address-in-use
AnyFailureInUse(err) == TRUE

\* lines 403-404
IsAddressInUse(err) == err = EADDRINUSE

\* the hint is given in every session
HintAlways(isRemote) == <<"set PLANNOTATOR_PORT to use different port">>

\* line 412
Hint(isRemote) ==
    IF isRemote THEN <<"set PLANNOTATOR_PORT to use different port">> ELSE <<>>

\* line 413: `Port ${configuredPort} in use after ${MAX_RETRIES} retries${hint}`
PortInUseError(port, isRemote) ==
    [kind |-> "PortInUse", port |-> port, retries |-> MAX_RETRIES,
     hint |-> Hint(isRemote)]

\* line 416: throw err
Rethrown(err) == [kind |-> err, port |-> 0, retries |-> 0, hint |-> <<>>]

\* line 421
FailedToStart ==
    [kind |-> "Failed to start server", port |-> 0, retries |-> 0, hint |-> <<>>]

\* a failure raised by the caller's onReady
OnReadyError == [kind |-> "onReady", port |-> 0, retries |-> 0, hint |-> <<>>]

InitBind ==
    /\ session = None
    /\ sessions = <<>>
    /\ bind \in {Some([pc |-> "try", attempt |-> 1, isRemote |-> r, port |-> p,
                       onReady |-> o, clock |-> 0, log |-> <<>>, server |-> None,
                       error |-> None, result |-> None]) :
                    r \in BOOLEAN, p \in ConfiguredPorts, o \in BOOLEAN}
    /\ imgOut = None /\ multi = None
    /\ files = {} /\ baseDir = <<>> /\ projectRoot = <<>>
    /\ docOut = None /\ docRead = None
    /\ vpReq = <<>> /\ vpBases = <<>> /\ vpOut = None
    /\ sanIn = <<>> /\ sanOut = None /\ sanOut2 = None
    /\ planDir = {} /\ slugCall = None
    /\ disk = <<>> /\ prior = None /\ writers = <<>> /\ lastRead = None
    /\ decision = None /\ resolveCalls = <<>> /\ delivered = None /\ reqs = <<>>
    /\ upload = None /\ tmpFiles = <<>> /\ tmpDirMode = None

FrameBind ==
    UNCHANGED <<session, varsValidate, varsSanitize, varsSlug, varsWrite, varsDoc,
                varsBroker, varsUpload, varsImage, varsMulti>>

Logged(outcome) ==
    Append(bind[1].log,
           [attempt |-> bind[1].attempt, at |-> bind[1].clock, outcome |-> outcome])

\* lines 119-401: Bun.serve returns, break
BindSucceeds ==
    /\ bind # None /\ bind[1].pc = "try"
    /\ bind' = Some([bind[1] EXCEPT !.log = Logged("ok"),
                                    !.server = Some(bind[1].port),
                                    !.pc = "after"])
    /\ FrameBind

\* lines 402-417: Bun.serve throws
BindFails ==
    /\ bind # None /\ bind[1].pc = "try"
    /\ \E err \in ServeErrors :
         bind' = Some(
           IF IsAddressInUse(err) /\ bind[1].attempt < MAX_RETRIES
           THEN [bind[1] EXCEPT !.log = Logged(err), !.pc = "sleeping"]
           ELSE IF IsAddressInUse(err)
           THEN [bind[1] EXCEPT !.log = Logged(err), !.pc = "failed",
                    !.error = Some(PortInUseError(bind[1].port, bind[1].isRemote))]
           ELSE [bind[1] EXCEPT !.log = Logged(err), !.pc = "failed",
                    !.error = Some(Rethrown(err))])
    /\ FrameBind

\* lines 407-408 and 117: the sleep ends, continue; attempt++ and the
\* loop's test
SleepEnds ==
    /\ bind # None /\ bind[1].pc = "sleeping"
    /\ bind' = Some([bind[1] EXCEPT
                        !.clock = @ + RETRY_DELAY_MS,
                        !.attempt = @ + 1,
                        !.pc = IF bind[1].attempt + 1 <= MAX_RETRIES
                               THEN "try" ELSE "after"])
    /\ FrameBind

\* lines 420-437: after the loop
AfterLoop ==
    /\ bind # None /\ bind[1].pc = "after"
    /\ \E onReadyThrows \in BOOLEAN :
         bind' = Some(
           IF bind[1].server = None
           THEN [bind[1] EXCEPT !.pc = "failed", !.error = Some(FailedToStart)]
           ELSE IF bind[1].onReady /\ onReadyThrows
           THEN [bind[1] EXCEPT !.pc = "failed", !.error = Some(OnReadyError)]
           ELSE [bind[1] EXCEPT !.pc = "returned",
                    !.result = Some([port |-> bind[1].server[1],
                                     isRemote |-> bind[1].isRemote])])
    /\ FrameBind

NextBind == BindSucceeds \/ BindFails \/ SleepEnds \/ AfterLoop

\* C12: at most MAX_RETRIES bind attempts are made; an attempt after the
\* first follows an address-in-use failure and comes at least the delay
\* later; the first successful bind is the last attempt; any other failure
\* is the last attempt and is raised as it is; a result is returned only
\* when a bind succeeded.
BindAttemptsBounded ==
    bind # None =>
      LET b == bind[1]
          n == Len(b.log)
      IN  /\ n <= MAX_RETRIES
          /\ \A i \in 1..n : b.log[i].attempt = i
          /\ \A i \in 2..n :
                /\ b.log[i - 1].outcome = EADDRINUSE
                /\ b.log[i].at >= b.log[i - 1].at + RETRY_DELAY_MS
          /\ \A i \in 1..n :
                b.log[i].outcome # EADDRINUSE =>
                    /\ i = n
                    /\ b.pc \notin {"try", "sleeping"}
          /\ \A i \in 1..n :
                b.log[i].outcome \notin {EADDRINUSE, "ok"} =>
                    /\ b.pc = "failed"
                    /\ b.error = Some(Rethrown(b.log[i].outcome))
          /\ b.pc = "returned" =>
                /\ n >= 1 /\ b.log[n].outcome = "ok"
                /\ b.result # None /\ b.result[1].port = b.port
          /\ b.result # None => b.pc = "returned"

\* the fifth attempt was made and succeeded
BindSucceededAtLastAttempt ==
    /\ bind # None /\ bind[1].pc = "returned"
    /\ Len(bind[1].log) = MAX_RETRIES

AllAttemptsInUse ==
    /\ bind # None
    /\ Len(bind[1].log) = MAX_RETRIES
    /\ \A i \in 1..MAX_RETRIES : bind[1].log[i].outcome = EADDRINUSE

\* C13 as stated: whenever all bind attempts fail with address-in-use, the
\* PortInUse failure raised names the PLANNOTATOR_PORT override, in a local
\* and in a remote session.
PortInUseAlwaysNamesOverride ==
    AllAttemptsInUse =>
        /\ bind[1].pc = "failed"
        /\ bind[1].error # None
        /\ bind[1].error[1].kind = "PortInUse"
        /\ bind[1].error[1].hint # <<>>

\* C13: whenever all bind attempts fail with address-in-use, a PortInUse
\* failure is raised that gives the port and the number of retries; it
\* names the PLANNOTATOR_PORT override exactly when the session is remote.
PortInUseNamesOverrideWhenRemote ==
    AllAttemptsInUse =>
        /\ bind[1].pc = "failed"
        /\ bind[1].error # None
        /\ bind[1].error[1].kind = "PortInUse"
        /\ bind[1].error[1].port = bind[1].port
        /\ bind[1].error[1].retries = MAX_RETRIES
        /\ (bind[1].error[1].hint # <<>>) <=> bind[1].isRemote

\* every attempt failed with address-in-use in a local session
PortInUseInLocalSession ==
    /\ AllAttemptsInUse
    /\ ~bind[1].isRemote
    /\ bind[1].error # None

(***************************************************************************)
(* GET /api/doc as a whole (part_001, lines 126-241): the main document    *)
(* and linked documents, requested one after another in one session.       *)
(***************************************************************************)
\* the session's markdown option: the main document's content
MainMarkdown == <<"main">>

\* line 128: url.searchParams.get("readonly") === "true"
ReadOnlyParam(readonly) == readonly = Some("true")

\* a linked document that takes readOnly from the query
LinkedReadOnlyFromQuery(readOnly) == readOnly

\* line 221: readOnly: true
LinkedReadOnly(readOnly) == TRUE

\* lines 216-224: the fields of a linked document's response
LinkedResponse(r, readOnly) ==
    IF r.status = 200
    THEN [r EXCEPT !.isMain = FALSE, !.readOnly = LinkedReadOnly(readOnly)]
    ELSE r

\* lines 127-240: the response of the route; path and readonly are the query
\* parameters (None when absent), an empty path is falsy
HandleDoc(path, readonly, readOk) ==
    LET readOnly == ReadOnlyParam(readonly)
    IN  IF path # None /\ path[1] # <<>>
        THEN LinkedResponse(HandleLinkedDoc(path[1], readOk), readOnly)
        ELSE [Response(200, "") EXCEPT
                 !.markdown = Some(MainMarkdown),
                 !.filepath = Filepath,
                 !.isMain = TRUE,
                 !.readOnly = readOnly]

\* the query parameters of the session's requests
SessionPaths ==
    { None, Some(<<>>),
      Some(<<"x">>), Some(<<"a", "/", "x">>),
      Some(<<"/", "p", "/", "x">>), Some(<<"/", "x">>) }
ReadOnlyParams == {None, Some("true"), Some("false")}

\* GET /api/doc, the first request of the session or the one after it
DocRequested ==
    /\ IF docOut = None THEN TRUE ELSE ~docOut[1].earlier
    /\ \E path \in SessionPaths, readonly \in ReadOnlyParams, readOk \in BOOLEAN :
         LET r == HandleDoc(path, readonly, readOk)
         IN  /\ docOut' = Some([path |-> path, readonly |-> readonly,
                                readOk |-> readOk, resp |-> r,
                                earlier |-> docOut # None])
             /\ docRead' = r.read
    /\ UNCHANGED <<files, baseDir, projectRoot>>
    /\ FrameDoc

NextDocSession == DocRequested

IsLinkedRequest(out) == out.path # None /\ out.path[1] # <<>>

\* C15: every successful response to a linked-document request has
\* readOnly = true and isMain = false, whatever the readonly parameter and
\* whatever was requested before; the main document's response has isMain =
\* true and readOnly equal to the readonly parameter.
LinkedDocsAlwaysReadOnly ==
    docOut # None =>
        LET out == docOut[1]
        IN  /\ (IsLinkedRequest(out) /\ out.resp.status = 200) =>
                  out.resp.readOnly /\ ~out.resp.isMain
            /\ ~IsLinkedRequest(out) =>
                  /\ out.resp.status = 200
                  /\ out.resp.isMain
                  /\ out.resp.readOnly = (out.readonly = Some("true"))

\* a linked document was served to a request with readonly=false, after
\* an earlier request
LinkedServedWithReadonlyFalse ==
    /\ docOut # None
    /\ docOut[1].earlier
    /\ IsLinkedRequest(docOut[1])
    /\ docOut[1].resp.status = 200
    /\ docOut[1].readonly = Some("false")

(***************************************************************************)
(* atomic.ts atomicWriteMultiple (part_002, lines 62-99): one call on the  *)
(* directory disk.  multi.before is the directory when the call began.     *)
(***************************************************************************)
\* the target paths of a batch; a batch may name a path twice
BatchPaths == {<<"a.md">>, <<"b.md">>}

\* the content of the batch's k-th entry, and the content a target had before
NewContent(k) == <<"new", k>>
OldContent == <<"old">>

\* writes: the batches of at most MaxBatch entries
RECURSIVE BatchesOf(_)
BatchesOf(n) ==
    IF n = 0 THEN {<<>>}
    ELSE LET shorter == BatchesOf(n - 1)
         IN  shorter \cup
             {Append(b, [path |-> p, content |-> NewContent(Len(b) + 1)]) :
                 b \in {c \in shorter : Len(c) = n - 1}, p \in BatchPaths}
Batches == BatchesOf(MaxBatch)

\* line 74: the temp path of the k-th entry; randomUUID gives each entry
\* its own
MultiTempPath(k) == TempPath(k)

\* a catch block that deletes nothing
CleanNothing(tempFiles) == <<>>

\* line 88: for (const tempPath of tempFiles)
ToClean(tempFiles) == tempFiles

InitMulti ==
    /\ session = None
    /\ sessions = <<>>
    /\ disk \in {[p \in S |-> OldContent] : S \in SUBSET BatchPaths}
    /\ multi \in {Some([pc |-> "phase1", writes |-> b, k |-> 1, tempFiles |-> <<>>,
                        results |-> <<>>, cause |-> "", failedAt |-> 0,
                        c |-> 1, unlinkFailed |-> {}, error |-> "",
                        before |-> d]) :
                     b \in Batches,
                     d \in {[p \in S |-> OldContent] : S \in SUBSET BatchPaths}}
    /\ multi[1].before = disk
    /\ prior = None /\ writers = <<>> /\ lastRead = None
    /\ imgOut = None /\ bind = None
    /\ files = {} /\ baseDir = <<>> /\ projectRoot = <<>>
    /\ docOut = None /\ docRead = None
    /\ vpReq = <<>> /\ vpBases = <<>> /\ vpOut = None
    /\ sanIn = <<>> /\ sanOut = None /\ sanOut2 = None
    /\ planDir = {} /\ slugCall = None
    /\ decision = None /\ resolveCalls = <<>> /\ delivered = None /\ reqs = <<>>
    /\ upload = None /\ tmpFiles = <<>> /\ tmpDirMode = None

FrameMulti ==
    UNCHANGED <<varsValidate, varsSanitize, varsSlug, prior, writers, lastRead,
                varsDoc, varsBroker, varsUpload, varsImage, varsBind>>

MultiAt(pc) == multi # None /\ multi[1].pc = pc
BatchSize == Len(multi[1].writes)

\* lines 70 and 80: phase 1 has written every entry, phase 2 begins
MPhase2Begins ==
    /\ MultiAt("phase1")
    /\ multi[1].k > BatchSize
    /\ multi' = Some([multi[1] EXCEPT !.pc = "phase2", !.k = 1])
    /\ UNCHANGED disk
    /\ FrameMulti

\* line 72: mkdirSync throws
MMkdirFails ==
    /\ MultiAt("phase1")
    /\ multi[1].k <= BatchSize
    /\ multi' = Some([multi[1] EXCEPT !.pc = "cleanup", !.cause = "mkdir",
                                      !.failedAt = multi[1].k])
    /\ UNCHANGED disk
    /\ FrameMulti

\* lines 71-75: Bun.write creates the entry's temp file
MTempCreated ==
    /\ MultiAt("phase1")
    /\ multi[1].k <= BatchSize
    /\ disk' = Put(disk, MultiTempPath(multi[1].k), <<>>)
    /\ multi' = Some([multi[1] EXCEPT !.pc = "writing"])
    /\ FrameMulti

\* lines 75-76: Bun.write completes and the temp path is recorded
MTempWritten ==
    /\ MultiAt("writing")
    /\ disk' = Put(disk, MultiTempPath(multi[1].k),
                   multi[1].writes[multi[1].k].content)
    /\ multi' = Some([multi[1] EXCEPT
                         !.pc = "phase1",
                         !.tempFiles = Append(@, MultiTempPath(multi[1].k)),
                         !.k = @ + 1])
    /\ FrameMulti

\* line 75: Bun.write fails, before it created the temp file or after
MWriteFails ==
    /\ MultiAt("phase1") \/ MultiAt("writing")
    /\ multi[1].k <= BatchSize
    /\ multi' = Some([multi[1] EXCEPT !.pc = "cleanup", !.cause = "write",
                                      !.failedAt = multi[1].k])
    /\ UNCHANGED disk
    /\ FrameMulti

\* a phase 2 that renames from the last entry to the first
RenameIndexReversed(k, n) == n + 1 - k

\* line 80: the entry renamed in the k-th round of phase 2, of n entries
RenameIndex(k, n) == k

\* lines 81-82: renameSync puts the temp file of the round's entry in its
\* target's place
MRename ==
    /\ MultiAt("phase2")
    /\ multi[1].k <= BatchSize
    /\ LET i == RenameIndex(multi[1].k, BatchSize)
       IN  /\ multi[1].tempFiles[i] \in DOMAIN disk
           /\ disk' = Remove(Put(disk, multi[1].writes[i].path,
                                 disk[multi[1].tempFiles[i]]),
                             multi[1].tempFiles[i])
           /\ multi' = Some([multi[1] EXCEPT
                                !.results = Append(@, multi[1].writes[i].path),
                                !.k = @ + 1])
    /\ FrameMulti

\* line 81: renameSync throws
MRenameFails ==
    /\ MultiAt("phase2")
    /\ multi[1].k <= BatchSize
    /\ multi' = Some([multi[1] EXCEPT !.pc = "cleanup", !.cause = "rename",
                                      !.failedAt = multi[1].k])
    /\ UNCHANGED disk
    /\ FrameMulti

\* line 85: return results
MReturns ==
    /\ MultiAt("phase2")
    /\ multi[1].k > BatchSize
    /\ multi' = Some([multi[1] EXCEPT !.pc = "done"])
    /\ UNCHANGED disk
    /\ FrameMulti

\* lines 88-92: the next recorded temp file is deleted if it exists
MUnlink ==
    /\ MultiAt("cleanup")
    /\ multi[1].c <= Len(ToClean(multi[1].tempFiles))
    /\ disk' = IF ToClean(multi[1].tempFiles)[multi[1].c] \in DOMAIN disk
               THEN Remove(disk, ToClean(multi[1].tempFiles)[multi[1].c])
               ELSE disk
    /\ multi' = Some([multi[1] EXCEPT !.c = @ + 1])
    /\ FrameMulti

\* lines 91-95: unlinkSync throws and the error is ignored
MUnlinkFails ==
    /\ MultiAt("cleanup")
    /\ multi[1].c <= Len(ToClean(multi[1].tempFiles))
    /\ ToClean(multi[1].tempFiles)[multi[1].c] \in DOMAIN disk
    /\ multi' = Some([multi[1] EXCEPT
                         !.c = @ + 1,
                         !.unlinkFailed = @ \cup {ToClean(multi[1].tempFiles)[multi[1].c]}])
    /\ UNCHANGED disk
    /\ FrameMulti

\* line 97: throw err
MThrows ==
    /\ MultiAt("cleanup")
    /\ multi[1].c > Len(ToClean(multi[1].tempFiles))
    /\ multi' = Some([multi[1] EXCEPT !.pc = "failed", !.error = multi[1].cause])
    /\ UNCHANGED disk
    /\ FrameMulti

NextMulti ==
    \/ MPhase2Begins \/ MMkdirFails \/ MTempCreated \/ MTempWritten \/ MWriteFails
    \/ MRename \/ MRenameFails \/ MReturns
    \/ MUnlink \/ MUnlinkFails \/ MThrows

\* what the directory holds at path: None when absent
StateAt(d, path) == IF path \in DOMAIN d THEN Some(d[path]) ELSE None

\* the temp files the call created that are still in the directory
TempsLeft ==
    {k \in 1..BatchSize : MultiTempPath(k) \in DOMAIN disk}

MultiFailedAt(cause) ==
    /\ multi # None
    /\ multi[1].pc = "failed"
    /\ multi[1].cause = cause

\* C17: when a temp write of phase 1 fails the call raises that failure, no
\* target of the batch has been created or modified, and (every deletion
\* the cleanup made having succeeded) no temp file the call created is
\* left, the temp file of the entry whose write failed included.
Phase1FailureLeavesNothing ==
    MultiFailedAt("write") =>
        /\ multi[1].error = "write"
        /\ \A p \in BatchPaths : StateAt(disk, p) = StateAt(multi[1].before, p)
        /\ multi[1].unlinkFailed = {} => TempsLeft = {}

\* the entries before the failed rename that name path p
CommittedTo(p) ==
    {j \in 1..(multi[1].failedAt - 1) : multi[1].writes[j].path = p}

\* the failure raised and the temp files left after a rename failed
RenameFailureRaisedAndCleaned ==
    /\ multi[1].error = "rename"
    /\ \A k \in TempsLeft : MultiTempPath(k) \in multi[1].unlinkFailed
    /\ multi[1].results =
          [j \in 1..(multi[1].failedAt - 1) |-> multi[1].writes[j].path]

\* C18 as stated: when the i-th rename fails, the targets before i hold
\* their new content, the targets from i on keep their prior state, the
\* original failure is raised and every temp file not yet renamed is
\* deleted when its deletion succeeds.
RenameFailureKeepsLaterTargets ==
    MultiFailedAt("rename") =>
        /\ \A j \in 1..(multi[1].failedAt - 1) :
              StateAt(disk, multi[1].writes[j].path) = Some(multi[1].writes[j].content)
        /\ \A j \in multi[1].failedAt..BatchSize :
              StateAt(disk, multi[1].writes[j].path)
                  = StateAt(multi[1].before, multi[1].writes[j].path)
        /\ RenameFailureRaisedAndCleaned

\* C18, amended: when the i-th rename fails, a path named by entries before
\* i holds the content of the last of them, not rolled back; every other
\* path keeps its prior state; the original failure is raised and every
\* temp file not yet renamed is deleted when its deletion succeeds.
RenameFailureKeepsUncommittedTargets ==
    MultiFailedAt("rename") =>
        /\ \A p \in BatchPaths :
              IF CommittedTo(p) = {}
              THEN StateAt(disk, p) = StateAt(multi[1].before, p)
              ELSE \E j \in CommittedTo(p) :
                      /\ \A i \in CommittedTo(p) : i <= j
                      /\ StateAt(disk, p) = Some(multi[1].writes[j].content)
        /\ RenameFailureRaisedAndCleaned

\* the third rename failed after two renames onto one path, over existing
\* targets, and the cleanup deleted the temp file left
ThirdRenameFailedAfterTwoOntoOnePath ==
    /\ MultiFailedAt("rename")
    /\ multi[1].failedAt = 3
    /\ multi[1].writes[1].path = multi[1].writes[2].path
    /\ multi[1].before # <<>>
    /\ multi[1].unlinkFailed = {}
    /\ TempsLeft = {}

(***************************************************************************)
(* storage.ts: sessions that each call generateUniqueSlug and then         *)
(* savePlan on one plan directory.  generateUniqueSlug has no await: a     *)
(* call is one step; savePlan's atomicWrite puts {slug}.md in place in one *)
(* step (the rename).                                                      *)
(***************************************************************************)
SessionIds == 1..NSessions

\* lines 61-84: the slug generateUniqueSlug returns for a plan in a
\* directory, now being Date.now() at the fallback
generateUniqueSlug(dir, plan, now) ==
    LET baseSlug == generateSlug(plan)
        free == {c \in 2..(CounterLimit - 1) : Append(baseSlug, c) \notin dir}
    IN  IF baseSlug \notin dir THEN baseSlug
        ELSE IF free # {}
             THEN Append(baseSlug, CHOOSE c \in free : \A d \in free : c <= d)
             ELSE Append(baseSlug, now)

InitRace ==
    /\ session = None
    /\ sessions = [s \in SessionIds |-> [pc |-> "idle", plan |-> "", slug |-> <<>>,
                                        replaced |-> FALSE]]
    /\ planDir \in PlanDirs
    /\ slugCall = None
    /\ vpReq = <<>> /\ vpBases = <<>> /\ vpOut = None
    /\ sanIn = <<>> /\ sanOut = None /\ sanOut2 = None
    /\ disk = <<>> /\ prior = None /\ writers = <<>> /\ lastRead = None
    /\ files = {} /\ baseDir = <<>> /\ projectRoot = <<>>
    /\ docOut = None /\ docRead = None
    /\ decision = None /\ resolveCalls = <<>> /\ delivered = None /\ reqs = <<>>
    /\ upload = None /\ tmpFiles = <<>> /\ tmpDirMode = None
    /\ imgOut = None /\ bind = None /\ multi = None

FrameRace ==
    UNCHANGED <<slugCall, varsValidate, varsSanitize, varsWrite, varsDoc, varsBroker,
                varsUpload, varsImage, varsBind, varsMulti>>

\* a session calls generateUniqueSlug for its plan
SessionGeneratesSlug(s) ==
    /\ sessions[s].pc = "idle"
    /\ \E plan \in Plans, now \in NowValues :
         sessions' = [sessions EXCEPT ![s] =
                         [@ EXCEPT !.pc = "generated", !.plan = plan,
                                   !.slug = generateUniqueSlug(planDir, plan, now)]]
    /\ UNCHANGED planDir
    /\ FrameRace

\* lines 90-94: the session's savePlan puts {slug}.md in place
SessionSavesPlan(s) ==
    /\ sessions[s].pc = "generated"
    /\ planDir' = planDir \cup {sessions[s].slug}
    /\ sessions' = [sessions EXCEPT ![s] =
                       [@ EXCEPT !.pc = "saved",
                                 !.replaced = sessions[s].slug \in planDir]]
    /\ FrameRace

NextRace == \E s \in SessionIds : SessionGeneratesSlug(s) \/ SessionSavesPlan(s)

\* C21: two sessions that each call generateUniqueSlug and then savePlan on
\* one directory obtain different slugs, in every interleaving of their
\* steps, and no session's savePlan replaces a file.
SessionsObtainDifferentSlugs ==
    /\ \A s, u \in SessionIds :
          (s # u /\ sessions[s].pc # "idle" /\ sessions[u].pc # "idle")
              => sessions[s].slug # sessions[u].slug
    /\ \A s \in SessionIds : ~sessions[s].replaced

(***************************************************************************)
(* validateImagePath applied to one request.                               *)
(***************************************************************************)
ImagePathAlphabet == {"/", ".", "a", "PNG", "exe"}
ImagePathStrings == StringsUpTo(ImagePathAlphabet, MaxPathLen)

InitImagePath ==
    /\ session = None
    /\ sessions = <<>>
    /\ vpReq \in ImagePathStrings
    /\ vpBases \in BaseLists
    /\ vpOut = None
    /\ sanIn = <<>> /\ sanOut = None /\ sanOut2 = None
    /\ planDir = {} /\ slugCall = None
    /\ disk = <<>> /\ prior = None /\ writers = <<>> /\ lastRead = None
    /\ files = {} /\ baseDir = <<>> /\ projectRoot = <<>>
    /\ docOut = None /\ docRead = None
    /\ decision = None /\ resolveCalls = <<>> /\ delivered = None /\ reqs = <<>>
    /\ upload = None /\ tmpFiles = <<>> /\ tmpDirMode = None
    /\ imgOut = None /\ bind = None /\ multi = None

CallValidateImagePath ==
    /\ vpOut = None
    /\ vpOut' = Some(validateImagePath(vpReq, vpBases))
    /\ UNCHANGED <<vpReq, vpBases>>
    /\ UNCHANGED <<varsSanitize, varsSlug, varsWrite, varsDoc, varsBroker, varsUpload,
                 varsImage, varsBind, varsMulti>>

NextImagePath == CallValidateImagePath

\* C22: validateImagePath returns the resolved path iff the path is
\* contained in an allowed base and the extension of the resolved path is
\* on the allow-list, case-insensitively; it fails with the extension error
\* when the path is contained but the extension is not allowed, and with the
\* path error whenever the path is not contained, whatever the extension.
ImagePathIffContainedAndAllowed ==
    vpOut # None =>
        LET contained == \E i \in DOMAIN vpBases :
                UnderBase(ResolveSegs(Cwd, vpReq), ResolveSegs(Cwd, vpBases[i]))
            allowed == isAllowedImageExtension(Resolve1(vpReq))
        IN  /\ vpOut[1].ok <=> (contained /\ allowed)
            /\ vpOut[1].ok => vpOut[1].path = Resolve1(vpReq)
            /\ (contained /\ ~allowed) => vpOut[1].error = ErrInvalidImageExtension
            /\ ~contained => vpOut[1].error = ErrPathNotAllowed

(***************************************************************************)
(* POST /api/upload with a concurrent GET /api/image of a path in the      *)
(* upload directory.                                                       *)
(***************************************************************************)
InitUploadRead ==
    /\ session = None
    /\ sessions = <<>>
    /\ upload = None
    /\ tmpFiles = <<>>
    /\ tmpDirMode = None
    /\ baseDir = <<"/", "d">>
    /\ projectRoot = <<"/", "d">>
    /\ imgOut = None
    /\ vpReq = <<>> /\ vpBases = <<>> /\ vpOut = None
    /\ sanIn = <<>> /\ sanOut = None /\ sanOut2 = None
    /\ planDir = {} /\ slugCall = None
    /\ disk = <<>> /\ prior = None /\ writers = <<>> /\ lastRead = None
    /\ files = {}
    /\ docOut = None /\ docRead = None
    /\ decision = None /\ resolveCalls = <<>> /\ delivered = None /\ reqs = <<>>
    /\ bind = None /\ multi = None

\* part_001 lines 245-258: GET /api/image of a path of the upload
\* directory; the body is the file as it is at that moment
ImageReadsUpload ==
    /\ imgOut = None
    /\ \E uuid \in {"uuid-1", "uuid-2"} :
         LET imagePath == <<"/", "tmp", "/", "plannotator", "/", uuid, ".", "png">>
             v == ImageValidate(imagePath, ImageAllowedBases)
         IN  imgOut' = Some(IF ~v.ok THEN [status |-> 403, path |-> imagePath, body |-> None]
                            ELSE IF v.path \notin DOMAIN tmpFiles
                            THEN [status |-> 404, path |-> imagePath, body |-> None]
                            ELSE [status |-> 200, path |-> imagePath,
                                  body |-> Some(tmpFiles[v.path])])
    /\ UNCHANGED <<upload, tmpFiles, tmpDirMode, files, baseDir, projectRoot, docOut, docRead>>
    /\ UNCHANGED <<varsValidate, varsSanitize, varsSlug, varsWrite, varsBroker,
                   varsBind, varsMulti>>

NextUploadRead == NextUpload \/ ImageReadsUpload

\* C23: an accepted upload is put in place by the Atomic Writer's
\* temp-then-rename protocol, so that a concurrent GET /api/image of the
\* path the upload returns never answers with a partly written file.
UploadNeverSeenPartial ==
    (imgOut # None /\ imgOut[1].status = 200) => imgOut[1].body[1].complete

(***************************************************************************)
(* The text of a feedback decision.                                        *)
(***************************************************************************)
Count(q, x) == Cardinality({i \in 1..Len(q) : q[i] = x})

\* d is the decision the claim describes for the feedback body b
DescribedDecision(d, b) ==
    LET t == d.feedback
        section == SubSeq(t, 2, Len(t) - 1)
        docs == b.linkedDocs
        viewed == IF docs = None THEN <<>> ELSE docs[1].viewed
        requested == IF docs = None THEN <<>> ELSE docs[1].requested
        paths == {viewed[i] : i \in 1..Len(viewed)}
                     \cup {requested[i] : i \in 1..Len(requested)}
    IN  /\ d.approved = FALSE
        /\ d.annotations = Some(IF b.annotations = None THEN <<>> ELSE b.annotations[1])
        /\ Len(t) >= 2
        /\ t[1] = RawPart(IF b.feedback = None THEN "" ELSE b.feedback[1])
        /\ t[Len(t)] = StatusPart
        /\ section # <<>> <=> (viewed # <<>> \/ requested # <<>>)
        /\ section # <<>> =>
              /\ section[1] = HeaderPart
              /\ Count(section, HeaderPart) = 1
              /\ Count(section, RunPart) = (IF requested # <<>> THEN 1 ELSE 0)
              /\ \A p \in paths :
                    /\ Count(section, RequestedPart(p)) = Count(requested, p)
                    /\ Count(section, CommandPart(p)) = Count(requested, p)
                    /\ Count(section, ViewedPart(p)) =
                          (IF InSeq(requested, p) THEN 0 ELSE Count(viewed, p))
              /\ Len(section) = 1 + (IF requested # <<>> THEN 1 ELSE 0)
                                  + 2 * Len(requested)
                                  + Len(SelectSeq(viewed, LAMBDA v : ~InSeq(requested, v)))

\* C24: the decision of a feedback request has approved = false, the
\* request's annotations or, without them, the empty list, and a text that
\* is the raw feedback, then a Linked Documents section iff viewed or
\* requested is non-empty, then, always and last, the status marker; the
\* section lists each entry of requested once as review-requested, each
\* entry of viewed that is not in requested once as viewed-only, and, iff
\* requested is non-empty, one follow-up instruction for each entry of
\* requested.
FeedbackDecisionText ==
    /\ \A k \in 1..Len(resolveCalls) :
          ~resolveCalls[k].approved =>
              \E i \in ReqIds :
                  /\ reqs[i].route = "feedback" /\ reqs[i].pc = "answered" /\ reqs[i].ok
                  /\ DescribedDecision(resolveCalls[k], reqs[i].body)
    /\ \A i \in ReqIds :
          (reqs[i].route = "feedback" /\ reqs[i].pc = "answered" /\ reqs[i].ok) =>
              \E k \in 1..Len(resolveCalls) :
                  DescribedDecision(resolveCalls[k], reqs[i].body)

\* the delivered decision is a feedback whose viewed list has an entry that
\* is also requested, next to a feedback without annotations whose lists
\* repeat a path
FeedbackWithLinkedDocsDelivered ==
    /\ delivered # None
    /\ ~delivered[1].approved
    /\ Len(delivered[1].feedback) = 7
    /\ \E i \in ReqIds :
          /\ reqs[i].route = "feedback" /\ reqs[i].pc = "answered" /\ reqs[i].ok
          /\ reqs[i].body.annotations = None
          /\ reqs[i].body.linkedDocs # None
          /\ Len(reqs[i].body.linkedDocs[1].requested) = 2

(***************************************************************************)
(* Requests that fail while they are processed.                            *)
(***************************************************************************)
\* the failures of a feedback request: a body that cannot be parsed, or
\* linkedDocs without its viewed and requested arrays
FailingFeedback(req) ==
    /\ req.route = "feedback"
    /\ \/ ~req.body.parsed
       \/ req.body.linkedDocs # None /\ ~req.body.linkedDocs[1].wellFormed

AnsweredOk == {i \in ReqIds : reqs[i].pc = "answered" /\ reqs[i].ok}

\* C26: a feedback request that fails while it is processed is answered 500
\* and does not fulfil the broker: the broker is fulfilled only by requests
\* answered {ok: true}, so that the first valid request after a failed one
\* determines the decision; an approve request whose body cannot be parsed
\* is answered {ok: true} and fulfils the broker, when pending, as approved
\* with no agentSwitch.
FailedFeedbackDoesNotFulfil ==
    /\ \A i \in ReqIds :
          (reqs[i].pc = "answered" /\ FailingFeedback(reqs[i])) =>
              reqs[i].status = 500 /\ ~reqs[i].ok
    /\ Len(resolveCalls) = Cardinality(AnsweredOk)
    /\ decision = None <=> AnsweredOk = {}
    /\ \A i \in ReqIds :
          (reqs[i].pc = "answered" /\ reqs[i].route = "approve" /\ ~reqs[i].body.parsed) =>
              /\ reqs[i].status = 200 /\ reqs[i].ok
              /\ ~reqs[i].late =>
                    /\ decision # None
                    /\ decision[1].approved
                    /\ decision[1].agentSwitch = None

\* two feedback requests failed, one for its body and one for its
\* linkedDocs, and the approve request with an unparsable body that came
\* after them determined the delivered decision
ApproveAfterFailedFeedbackDelivered ==
    /\ delivered # None
    /\ delivered[1].approved
    /\ delivered[1].agentSwitch = None
    /\ \E i, j, k \in ReqIds :
          /\ reqs[i].pc = "answered" /\ reqs[i].route = "feedback"
          /\ ~reqs[i].body.parsed /\ ~reqs[i].late
          /\ reqs[j].pc = "answered" /\ reqs[j].route = "feedback"
          /\ reqs[j].body.linkedDocs = Some(MalformedLinkedDocs) /\ ~reqs[j].late
          /\ reqs[k].pc = "answered" /\ reqs[k].route = "approve"
          /\ ~reqs[k].body.parsed /\ ~reqs[k].late

(***************************************************************************)
(* A running session: the approve and feedback handlers next to the other  *)
(* routes of the fetch handler and the stop() of the returned object.  One  *)
(* request to another route is followed, at any moment of the session.     *)
(***************************************************************************)
SessionReqIds == 1..NSessionReqs

\* a stop() that settles the decision as not approved
StopRejects(current) ==
    Some([approved |-> FALSE, feedback |-> <<>>, annotations |-> None,
          agentSwitch |-> None])

\* line 436: stop: () => server.stop() leaves the decision promise alone
StopDecision(current) == current

\* lines 270-300: the status of /api/upload; written says whether mkdirSync
\* and Bun.write succeed
UploadStatus(body, written) ==
    IF ~body.form THEN 500
    ELSE IF body.file = None THEN 400
    ELSE IF TooLarge(body.file[1].size) THEN 413
    ELSE IF ~isAllowedImageExtension(body.file[1].name) THEN 415
    ELSE IF ~written THEN 500
    ELSE 200

SessionUploadBodies ==
    { [form |-> FALSE, file |-> None], [form |-> TRUE, file |-> None],
      [form |-> TRUE, file |-> Some([name |-> <<"a", ".", "png">>, size |-> 1024])],
      [form |-> TRUE, file |-> Some([name |-> <<"a", ".", "exe">>, size |-> 1024])],
      [form |-> TRUE, file |-> Some([name |-> <<"a", ".", "png">>, size |-> 12582912])] }

InitSession ==
    /\ sessions = <<>>
    /\ session = Some([markdown |-> MainMarkdown, filepath |-> Filepath, running |-> TRUE])
    /\ decision = None
    /\ resolveCalls = <<>>
    /\ delivered = None
    /\ reqs = [i \in SessionReqIds |-> [pc |-> "none", route |-> "", body |-> Unparsable,
                                        status |-> 0, ok |-> FALSE, late |-> FALSE]]
    /\ files = {<<"/", "p", "/", "d", "/", "x">>, <<"/", "x">>}
    /\ baseDir = <<"/", "p", "/", "d">>
    /\ projectRoot = <<"/", "p">>
    /\ docOut = None /\ docRead = None
    /\ upload = None /\ tmpFiles = <<>> /\ tmpDirMode = None
    /\ imgOut = None
    /\ vpReq = <<>> /\ vpBases = <<>> /\ vpOut = None
    /\ sanIn = <<>> /\ sanOut = None /\ sanOut2 = None
    /\ planDir = {} /\ slugCall = None
    /\ disk = <<>> /\ prior = None /\ writers = <<>> /\ lastRead = None
    /\ bind = None /\ multi = None

\* what a request to another route leaves unchanged
FrameOtherRoute ==
    UNCHANGED <<session, bind, files, baseDir, projectRoot, docRead, upload, imgOut,
                varsBroker, varsValidate, varsSanitize, varsSlug, varsWrite, varsMulti>>

\* lines 126-241: GET /api/doc, the main document or a linked one
SessionDocHandled ==
    /\ session[1].running
    /\ docOut = None
    /\ \E path \in {None, Some(<<"x">>), Some(<<"/", "x">>)}, readOk \in BOOLEAN :
         docOut' = Some([route |-> "doc", status |-> HandleDoc(path, None, readOk).status])
    /\ UNCHANGED <<tmpFiles, tmpDirMode>>
    /\ FrameOtherRoute

\* lines 244-266: GET /api/image
SessionImageHandled ==
    /\ session[1].running
    /\ docOut = None
    /\ \E path \in {None, Some(<<"/", "p", "/", "d", "/", "x">>), Some(<<"/", "x">>)} :
         docOut' = Some([route |-> "image", status |-> HandleImage(path).status])
    /\ UNCHANGED <<tmpFiles, tmpDirMode>>
    /\ FrameOtherRoute

\* lines 269-302: POST /api/upload, from the request to its answer
SessionUploadHandled ==
    /\ session[1].running
    /\ docOut = None
    /\ \E body \in SessionUploadBodies, written \in BOOLEAN :
         LET status == UploadStatus(body, written)
         IN  /\ docOut' = Some([route |-> "upload", status |-> status])
             /\ IF status = 200
                THEN /\ tmpFiles' = Put(tmpFiles, UploadPath(body.file[1].name, "uuid-1"),
                                        [mode |-> FileMode, complete |-> TRUE])
                     /\ tmpDirMode' = Some(DirMode)
                ELSE UNCHANGED <<tmpFiles, tmpDirMode>>
    /\ FrameOtherRoute

\* lines 305-320: GET /api/agents answers 200 with or without a client
SessionAgentsHandled ==
    /\ session[1].running
    /\ docOut = None
    /\ docOut' = Some([route |-> "agents", status |-> 200])
    /\ UNCHANGED <<tmpFiles, tmpDirMode>>
    /\ FrameOtherRoute

\* lines 395-397: every other path gets the embedded HTML
SessionShellHandled ==
    /\ session[1].running
    /\ docOut = None
    /\ docOut' = Some([route |-> "shell", status |-> 200])
    /\ UNCHANGED <<tmpFiles, tmpDirMode>>
    /\ FrameOtherRoute

\* line 436: the caller stops the server; requests in flight are finished
SessionStops ==
    /\ session[1].running
    /\ session' = Some([session[1] EXCEPT !.running = FALSE])
    /\ decision' = StopDecision(decision)
    /\ UNCHANGED <<resolveCalls, delivered, reqs, bind>>
    /\ UNCHANGED <<varsValidate, varsSanitize, varsSlug, varsWrite, varsDoc, varsUpload,
                   varsImage, varsMulti>>

NextSession ==
    \/ \E i \in SessionReqIds :
          \/ session[1].running /\ ApproveArrives(i)
          \/ session[1].running /\ FeedbackArrives(i)
          \/ ApproveResumes(i) \/ ApproveFails(i)
          \/ FeedbackResumes(i) \/ FeedbackFails(i)
    \/ DecisionDelivered
    \/ SessionDocHandled \/ SessionImageHandled \/ SessionUploadHandled
    \/ SessionAgentsHandled \/ SessionShellHandled
    \/ SessionStops

\* the step of a handler of /api/approve or /api/feedback that answers
\* {ok: true}
AcceptedStep ==
    \E i \in SessionReqIds :
        /\ reqs[i].pc = "parsing"
        /\ reqs'[i].pc = "answered"
        /\ reqs'[i].ok

\* C25: the broker is fulfilled only by the step of an approve or feedback
\* request that is answered {ok: true}, and only when it is pending: no
\* request to another route, no failed request and no stop() changes the
\* decision, and a delivered decision is never changed; the session's
\* markdown, filepath, baseDir and projectRoot never change.
OnlyDecisionRequestsFulfil ==
    [][ /\ decision' # decision => (decision = None /\ AcceptedStep)
        /\ delivered' # delivered => (delivered = None /\ delivered' = decision)
        /\ session'[1].markdown = session[1].markdown
        /\ session'[1].filepath = session[1].filepath
        /\ baseDir' = baseDir
        /\ projectRoot' = projectRoot ]_vars

\* after a failed feedback, requests to other routes and stop(), the
\* broker was still pending; the feedback in flight then fulfilled it and the
\* decision was delivered
DeliveredAfterStopAndOtherRoutes ==
    /\ ~session[1].running
    /\ docOut # None /\ docOut[1].route = "upload" /\ docOut[1].status = 200
    /\ delivered # None
    /\ Len(resolveCalls) = 1
    /\ \E i, j \in SessionReqIds :
          /\ reqs[i].pc = "answered" /\ reqs[i].status = 500 /\ ~reqs[i].late
          /\ reqs[j].pc = "answered" /\ reqs[j].ok

(***************************************************************************)
(* GET /api/doc?path=P asked twice, the files outside baseDir and          *)
(* projectRoot changing in between.                                        *)
(***************************************************************************)
\* relative requests of one or two segments
RepeatedRequests == {Tail(JoinSegs(l)) : l \in SegLists(2) \ {<<>>}}

\* the first request and its status
DocFirstAsked ==
    /\ docOut = None
    /\ \E P \in RepeatedRequests, readOk \in BOOLEAN :
         docOut' = Some([req |-> P, readOk |-> readOk,
                         first |-> HandleLinkedDoc(P, readOk).status,
                         changed |-> FALSE, second |-> None])
    /\ UNCHANGED <<files, baseDir, projectRoot, docRead>>
    /\ FrameDoc

\* files outside baseDir and projectRoot are created or deleted
OutsideFilesChange ==
    /\ docOut # None
    /\ ~docOut[1].changed
    /\ \E other \in SUBSET CandidateFiles :
         /\ other # files
         /\ \A f \in CandidateFiles : InsideBases(f) => (f \in other <=> f \in files)
         /\ files' = other
    /\ docOut' = Some([docOut[1] EXCEPT !.changed = TRUE])
    /\ UNCHANGED <<baseDir, projectRoot, docRead>>
    /\ FrameDoc

\* the same request again
DocAskedAgain ==
    /\ docOut # None
    /\ docOut[1].changed
    /\ docOut[1].second = None
    /\ docOut' = Some([docOut[1] EXCEPT
                          !.second = Some(HandleLinkedDoc(docOut[1].req,
                                                          docOut[1].readOk).status)])
    /\ UNCHANGED <<files, baseDir, projectRoot, docRead>>
    /\ FrameDoc

NextDocRepeated == DocFirstAsked \/ OutsideFilesChange \/ DocAskedAgain

\* C27: the status of a linked-document request does not depend on the
\* files outside baseDir and projectRoot: asked again after only such files
\* were created or deleted, the same request gets the same status.
DocStatusIgnoresOutsideFiles ==
    (docOut # None /\ docOut[1].second # None) =>
        docOut[1].second[1] = docOut[1].first

(***************************************************************************)
(* The two phases of atomicWriteMultiple.                                  *)
(***************************************************************************)
\* the entries already renamed that name path p
RenamedTo(p) ==
    {j \in 1..Len(multi[1].results) : multi[1].writes[j].path = p}

\* C28: atomicWriteMultiple creates or replaces no target before every
\* entry of the batch has been written to its temp file; the renames then
\* follow the input list, so that the returned list is at any moment the
\* list of the first entries' paths and a target holds the content of the
\* last of the renamed entries that name it; on success the returned list is
\* the list of all input paths in order and no temp file of the call is left.
MultiRenamesAfterAllWrittenInOrder ==
    multi # None =>
        /\ (\E p \in BatchPaths : StateAt(disk, p) # StateAt(multi[1].before, p)) =>
              /\ Len(multi[1].tempFiles) = BatchSize
              /\ multi[1].pc \notin {"phase1", "writing"}
        /\ Len(multi[1].results) <= BatchSize
        /\ multi[1].results =
              [j \in 1..Len(multi[1].results) |-> multi[1].writes[j].path]
        /\ \A p \in BatchPaths :
              IF RenamedTo(p) = {}
              THEN StateAt(disk, p) = StateAt(multi[1].before, p)
              ELSE StateAt(disk, p) =
                      Some(NewContent(CHOOSE j \in RenamedTo(p) :
                                         \A h \in RenamedTo(p) : h <= j))
        /\ multi[1].pc = "done" =>
              /\ multi[1].results = [j \in 1..BatchSize |-> multi[1].writes[j].path]
              /\ TempsLeft = {}

\* a batch of three entries on two paths returned: the path named twice
\* holds the content of the third entry
BatchOfThreeReturned ==
    /\ MultiAt("done")
    /\ BatchSize = 3
    /\ multi[1].results = << <<"a.md">>, <<"b.md">>, <<"a.md">> >>
    /\ disk[<<"a.md">>] = NewContent(3)
    /\ disk[<<"b.md">>] = NewContent(2)
    /\ <<"b.md">> \notin DOMAIN multi[1].before

(***************************************************************************)
(* Specifications.                                                         *)
(***************************************************************************)
SpecValidate == InitValidate /\ [][NextValidate]_vars

SpecSanitize == InitSanitize /\ [][NextSanitize]_vars

SpecSlug == InitSlug /\ [][NextSlug]_vars

SpecWrite == InitWrite /\ [][NextWrite]_vars

SpecDoc == InitDoc /\ [][NextDoc]_vars

SpecBroker == InitBroker /\ [][NextBroker]_vars

SpecUpload == InitUpload /\ [][NextUpload]_vars

SpecImage == InitImage /\ [][NextImage]_vars

SpecBind == InitBind /\ [][NextBind]_vars

SpecDocSession == InitDoc /\ [][NextDocSession]_vars

SpecMulti == InitMulti /\ [][NextMulti]_vars

SpecRace == InitRace /\ [][NextRace]_vars

SpecImagePath == InitImagePath /\ [][NextImagePath]_vars

SpecUploadRead == InitUploadRead /\ [][NextUploadRead]_vars

SpecSession == InitSession /\ [][NextSession]_vars

SpecDocRepeated == InitDoc /\ [][NextDocRepeated]_vars

====
